---- MODULE Spec2Model ----
\* Subscription delivery engine of the MQTT broker:
\*   - the shared-leader push pump and its lifecycle
\*     (mqtt-broker/src/subscribe/sub_share_leader.rs),
\*   - the per-topic push pump (mqtt-broker/src/subscribe/push.rs).
\* One share_leader_key (one group on one topic) is modelled for the
\* shared-leader part: every table of that file is keyed by share_leader_key
\* and no operation touches two keys.
EXTENDS Integers, Sequences, FiniteSets, TLC

\* ------------------------------------------------------------------ bounds
\* Length of the topic log of the lifecycle specification.
MaxLog == 2
\* Length of the topic log of the fixed-membership specification.
MaxLogRR == 3
\* Length of the topic log of the stop specification.
MaxStopLog == 2
\* Shards of the heartbeat manager (shard_num).
ShardNum == 2
\* Sweeps of the keep-alive sweeper in one run.
MaxSweeps == 2
\* Seconds a sleep of the sweeper lasts beyond its duration.
MaxOversleep == 1
\* Values sent on the sweeper's stop channel in one run.
MaxStopSend == 2
\* Heartbeats reported in one run.
MaxBeats == 1
\* sleep(Duration::from_secs(5)) between the snapshot and the scan.
SweepSleep == 5
\* Packet identifiers wrap in 1..MaxPkid (65535 in the program).
MaxPkid == 2
\* Pump tasks spawned in one run.
MaxPumps == 2
\* Pump tasks spawned in one run of the specification of the tick's fairness.
MaxGcPumps == 3
\* Records appended to the topic logs of the per-topic push specification.
MaxTopicLog == 2

Clients == {"c1", "c2"}
\* Originating client ids of the records: an outside publisher and a
\* client that is also a member of the group.
Publishers == {"pub", "c1"}
QoSLevels == 0 .. 2
PumpIds == 1 .. (IF MaxPumps >= MaxGcPumps THEN MaxPumps ELSE MaxGcPumps)
NoPump == 0
Pkids == 1 .. MaxPkid

AckTypes == {"PubAck", "PubRec", "PubComp"}
\* wait_packet_ack returns None on timeout.
NoAck == [ack_type |-> "None", pkid |-> 0]
AckData == [ack_type : AckTypes, pkid : Pkids]
AckInputs == AckData \cup {NoAck}

VARIABLES
    \* ---- shared-leader subsystem
    cluster_max_qos,            \* metadata_cache.get_cluster_info().max_qos()
    pump_cap,                   \* bound on the pump tasks spawned in the specification
    share_leader_subscribe,     \* the entry of the key: [present, sub_list]
    share_leader_push_thread,   \* the stop handle registered for the key (NoPump: none)
    tick,                       \* SubscribeShareLeader::start loop position
    pump,                       \* the spawned pump tasks
    stop_chan,                  \* unread values on each pump's stop broadcast channel
    next_pump,                  \* id of the next pump task to spawn
    log,                        \* the topic log; the offset of log[i] is i
    log_cap,                    \* bound on Len(log) of the specification
    group_offset,               \* committed offset of the group
    pkid_counter,               \* per client pkid generator
    pkid_info,                  \* client id -> the pkids of the client's pkid ledger
    ack_packet,                 \* client id -> the pkids with an entry in the ack-waiter table
    \* ---- history of the shared-leader subsystem
    commit_log,                 \* the offsets of the commit_group_offset calls, in order
    last_commit,                \* the latest commit_group_offset call and the ack before it
    dropped,                    \* offsets abandoned after the failed attempts
    nolocal_dropped,            \* offsets whose PUBLISH the nolocal rule dropped
    rr,                         \* round-robin monitor
    pubrel_sent,                \* the PUBREL packets sent: [client, pkid, offset]
    \* ---- per-topic push subsystem (PushServer)
    topic_subscribe,            \* topic id -> [present, sub_list]: exclusive subscribers
    topic_push_thread,          \* topic ids with a registered stop handle
    push_stop,                  \* topic id -> a `true` is unread on the pump's stop channel
    push_pump,                  \* topic id -> the spawned pump task
    topic_log,                  \* topic id -> the topic's log
    topic_offset,               \* topic id -> committed offset of group system_sub_<topic id>
    session_info,               \* client id -> connection id (NoConnection: none)
    response_queue,             \* the packets sent on response_queue_sx4 / sx5
    subscribed_at,              \* history: Len(topic_log) when the client subscribed (-1: never)
    \* ---- construction of one PUBLISH
    b_subscribe,                \* the subscriber
    b_msg,                      \* the stored message
    b_publish,                  \* the packet built for them
    \* ---- keep-alive sweeper (KeepAlive)
    now,                        \* now_second(): the clock advances while the sweeper sleeps
    heartbeat_data,             \* connection id -> ConnectionLiveTime of the heartbeat manager
    beats,                      \* heartbeats reported so far
    ka,                         \* start_heartbeat_check loop position and locals
    ka_stop,                    \* stop channel: unread values, values sent so far
    shard_task,                 \* <<sweep, shard>> -> the task spawned for the shard
    permits,                    \* sweep -> available permits of the sweep's semaphore
    request_queue4,             \* packets sent on request_queue_sx4
    request_queue5,             \* packets sent on request_queue_sx5
    scan_log,                   \* history: the evaluations made by the shard tasks
    \* ---- membership history of the shared-leader subsystem
    retain_sent,                \* per client: retained messages sent since it joined?
    stale,                      \* pump -> client id -> the pump's selections of a removed member
    \* ---- plaintext authentication
    user_info,                  \* username -> User (NoUser: no entry)
    login,                      \* the Login of the CONNECT
    auth_result,                \* the value apply returned
    \* ---- MQTT user store of the placement center
    rocksdb,                    \* the keys stored, each with its bytes
    user_written,               \* history: <<cluster, username>> -> the user last saved, NoUser after a delete
    \* ---- records requested per read
    calc,                       \* [sub_len, record_num]: calc_record_num and its argument
    \* ---- history of the PUBCOMP wait
    comp_release                \* the ack on which the wait last removed a pkid: its type, pkid equal?

leaderVars == <<cluster_max_qos, pump_cap, share_leader_subscribe, share_leader_push_thread,
                tick, pump, stop_chan, next_pump, log, log_cap, group_offset,
                pkid_counter, commit_log, last_commit, dropped, nolocal_dropped, rr>>

pushVars == <<topic_subscribe, topic_push_thread, push_stop, push_pump, topic_log,
              topic_offset, session_info, response_queue, subscribed_at>>

buildVars == <<b_subscribe, b_msg, b_publish>>

\* The pkid ledger, the ack-waiter table and the PUBREL history.
ledgerVars == <<pkid_info, ack_packet, pubrel_sent>>

keepVars == <<now, heartbeat_data, beats, ka, ka_stop, shard_task, permits,
              request_queue4, request_queue5, scan_log>>

memberVars == <<retain_sent, stale>>

authVars == <<user_info, login, auth_result>>

storeVars == <<rocksdb, user_written>>

auxVars == <<authVars, storeVars, calc, comp_release>>

vars == <<leaderVars, ledgerVars, pushVars, buildVars, keepVars, memberVars, auxVars>>

\* ------------------------------------------------------------- pure helpers
Max(a, b) == IF a >= b THEN a ELSE b
Min(a, b) == IF a <= b THEN a ELSE b

\* sub_common::min_qos
min_qos(a, b) == IF a <= b THEN a ELSE b

NoPublish == [none |-> TRUE]

\* Variant of build_publish: nolocal drops the PUBLISH whoever published.
build_publish_NolocalOnly(max_qos, subscribe, topic_name, msg) ==
    IF subscribe.nolocal
    THEN NoPublish
    ELSE [none |-> FALSE, dup |-> FALSE, qos |-> min_qos(max_qos, subscribe.qos),
          pkid |-> 0, retain |-> IF subscribe.preserve_retain THEN msg.retain ELSE FALSE,
          topic |-> topic_name, payload |-> msg.payload]

\* build_publish: the PUBLISH for a subscriber, or NoPublish
build_publish(max_qos, subscribe, topic_name, msg) ==
    LET qos == min_qos(max_qos, subscribe.qos)
        retain == IF subscribe.preserve_retain THEN msg.retain ELSE FALSE
    IN IF subscribe.nolocal /\ subscribe.client_id = msg.client_id
       THEN NoPublish
       ELSE [none |-> FALSE, dup |-> FALSE, qos |-> qos, pkid |-> 0,
             retain |-> retain, topic |-> topic_name, payload |-> msg.payload]

\* calc_record_num
calc_record_num(sub_len) ==
    IF sub_len = 0 THEN 100
    ELSE IF sub_len * 5 > 1000 THEN 1000 ELSE sub_len * 5

\* build_share_leader_sub_list
build_share_leader_sub_list ==
    IF share_leader_subscribe.present THEN share_leader_subscribe.sub_list ELSE <<>>

\* Variant of puback_matches: a PUBACK of any pkid completes the delivery.
puback_matches_AnyPkid(data, pkid) ==
    data # NoAck /\ data.ack_type = "PubAck"

\* QoS 1: the ack that completes the delivery
puback_matches(data, pkid) ==
    data # NoAck /\ data.ack_type = "PubAck" /\ data.pkid = pkid

\* QoS 2: the ack that lets the offset be committed
pubrec_matches(data, pkid) ==
    data # NoAck /\ data.ack_type = "PubRec" /\ data.pkid = pkid

\* History of the PUBCOMP wait: no pkid removed so far, and what the ack that
\* made the wait remove pkid was (NoAck: the wait had timed out).
NoRelease == [released |-> FALSE, ack_type |-> "none", same_pkid |-> FALSE]

Release(data, pkid) ==
    [released |-> TRUE,
     ack_type |-> IF data = NoAck THEN "none" ELSE data.ack_type,
     same_pkid |-> data # NoAck /\ data.pkid = pkid]

\* pubcomp_matches without the comparison of the pkid
pubcomp_matches_AnyPkid(data, pkid) ==
    data # NoAck /\ data.ack_type = "PubComp"

\* QoS 2: the ack that ends the delivery
pubcomp_matches(data, pkid) ==
    data # NoAck /\ data.ack_type = "PubComp" /\ data.pkid = pkid

\* The pkid ledger after get_pkid handed out pk (the generator's skipping
\* of in-flight values is left out: it keeps no pkid from being handed out).
save_pkid_info(c, pk) == [pkid_info EXCEPT ![c] = @ \cup {pk}]
\* cache_manager.remove_pkid_info
remove_pkid_info(c, pk) == [pkid_info EXCEPT ![c] = @ \ {pk}]
\* cache_manager.add_ack_packet
add_ack_packet(c, pk) == [ack_packet EXCEPT ![c] = @ \cup {pk}]
\* cache_manager.remove_ack_packet
remove_ack_packet(c, pk) == [ack_packet EXCEPT ![c] = @ \ {pk}]

\* cache_manager.get_pkid: per client, monotonic, wrapping
get_pkid(c) == (pkid_counter[c] % MaxPkid) + 1


\* ------------------------------------------------------------------ inputs
\* Subscriber as built from a SUBSCRIBE filter.
Subscriber(c, q, nl) ==
    [client_id |-> c, qos |-> q, nolocal |-> nl, preserve_retain |-> FALSE]

\* Records of the log: MQTTMessage as encoded by the broker on PUBLISH ingress.
\* Every record of the log was written by that encoder, so decode_record
\* succeeds on the records enumerated here (valid = TRUE).
Messages ==
    {[client_id |-> o, qos |-> 1, retain |-> FALSE, payload |-> o, valid |-> TRUE] :
        o \in Publishers}

TopicName == "t/a"

SubClients(sl) == {sl[i].client_id : i \in 1 .. Len(sl)}

RemoveClient(sl, c) == SelectSeq(sl, LAMBDA s : s.client_id # c)

NoGroup == [present |-> FALSE, sub_list |-> <<>>]

\* ------------------------------------------------------------ pump records
\* puback_timeout: the Err of the last share_leader_publish_message_qos1 call
\* was the PUBACK timeout; cleared by the next pass of the loop.
\* rel_due: the wait for PUBCOMP timed out and qos2_send_pubrel is being
\* called again.
IdlePump ==
    [pc |-> "idle", cursor_point |-> 0, sub_list |-> <<>>, cp0 |-> 0, sl0 |-> <<>>,
     lo |-> 0, hi |-> 0, loop_times |-> 0, pkid |-> 0, tried |-> <<>>,
     puback_timeout |-> FALSE, rel_due |-> FALSE]

DonePump == [IdlePump EXCEPT !.pc = "done"]

Running(p) == pump[p].pc \notin {"idle", "done"}

\* The member selected for the current record: sub_list.get(current_point),
\* with cursor_point = current_point + 1.
Selected(pr) == pr.sub_list[pr.cursor_point]

\* ------------------------------------------------------------ rr monitor
\* live: the membership is unchanged since the first pump was spawned;
\* seq: the members of the successful deliveries so far, in order;
\* failed: the members with a failed delivery attempt.  Nothing is recorded
\* once live is FALSE.
RRVoid == [live |-> FALSE, failed |-> {}, seq |-> <<>>]
RRStart == [live |-> TRUE, failed |-> {}, seq |-> <<>>]

RRDeliver(c) == IF rr.live THEN [rr EXCEPT !.seq = Append(@, c)] ELSE rr
RRFail(c) == IF rr.live THEN [rr EXCEPT !.failed = @ \cup {c}] ELSE rr

\* ------------------------------------------------- storage (group offset)
\* commit_group_offset: idempotent, monotonic.
CommitEntry(off, c, q, pk, data) ==
    [offset |-> off, client |-> c, qos |-> q, pkid |-> pk, ack |-> data]

NoCommit == CommitEntry(0, "", 0, 0, NoAck)

commit_group_offset(off, c, q, pk, data) ==
    /\ group_offset' = Max(group_offset, off)
    /\ commit_log' = Append(commit_log, off)
    /\ last_commit' = CommitEntry(off, c, q, pk, data)

\* read_topic_message: the offsets of the records strictly after the
\* committed offset, at most record_num of them, as <<first, last>>.
read_topic_message(record_num) ==
    <<group_offset + 1, Min(Len(log), group_offset + record_num)>>

\* Variant of NextRecord: the loop over the members lacks its break, the
\* same record is offered to the next member.
NextRecord_NoBreak(pr) == [pr EXCEPT !.pc = "pick"]

\* Variant of NextRecord: the cursor is not carried to the next read batch.
NextRecord_CursorReset(pr) ==
    IF pr.lo < pr.hi
    THEN [pr EXCEPT !.lo = @ + 1, !.loop_times = 0, !.pc = "pick", !.pkid = 0,
                    !.tried = <<>>]
    ELSE [IdlePump EXCEPT !.pc = "read", !.cursor_point = 0,
                          !.sub_list = pr.sub_list, !.cp0 = 0,
                          !.sl0 = pr.sub_list, !.hi = pr.lo]

\* Variant of FailAttempt: the cursor steps back, the member that failed is
\* selected again.
FailAttempt_SameMember(pr) ==
    [pr EXCEPT !.pc = "pick", !.loop_times = @ + 1,
               !.cursor_point = @ - 1,
               !.tried[Len(pr.tried)].st = "fail"]

\* The record loop moves to the next record of the batch, or
\* read_message_process returns (cursor_point, sub_list) to the pump loop.
NextRecord(pr) ==
    IF pr.lo < pr.hi
    THEN [pr EXCEPT !.lo = @ + 1, !.loop_times = 0, !.pc = "pick", !.pkid = 0,
                    !.tried = <<>>]
    ELSE [IdlePump EXCEPT !.pc = "read", !.cursor_point = pr.cursor_point,
                          !.sub_list = pr.sub_list, !.cp0 = pr.cursor_point,
                          !.sl0 = pr.sub_list, !.hi = pr.lo]

\* A failed attempt: loop_times = loop_times + 1, the loop goes on.
FailAttempt(pr) ==
    [pr EXCEPT !.pc = "pick", !.loop_times = @ + 1,
               !.tried[Len(pr.tried)].st = "fail"]

OkAttempt(pr) ==
    [pr EXCEPT !.tried[Len(pr.tried)].st = "ok"]


\* ------------------------------------------------------ membership history
\* What a pump has done with a client id since the member was removed from
\* the group's entry (st), and the offset of the record it was selected for
\* since (record, 0: none):
\*   "in"     the client is a member (or never was one);
\*   "gone"   removed, not selected since, no refresh of the pump's list since;
\*   "once"   removed and selected for one record since, no refresh since;
\*   "fresh"  removed, never selected since, and the pump has refreshed its list;
\*   "served" removed, selected for one record, and then the pump refreshed its list;
\*   "twice"  removed and selected for a second record before a refresh;
\*   "late"   removed and selected after a refresh.
StaleStates == {"in", "gone", "once", "fresh", "served", "twice", "late"}

Stale(st, off) == [st |-> st, record |-> off]

StaleIdle == [c \in Clients |-> Stale("in", 0)]

\* remove_subscribe, as seen by the running pumps.
StaleLeave(c) ==
    [p \in PumpIds |-> IF pump[p].pc \notin {"idle", "done"}
                       THEN [stale[p] EXCEPT ![c] = Stale("gone", 0)]
                       ELSE stale[p]]

\* parse_subscribe: the client is a member again.
StaleJoin(c) == [p \in PumpIds |-> [stale[p] EXCEPT ![c] = Stale("in", 0)]]

\* The pump replaced its sub_list by sl = build_share_leader_sub_list(..).
StaleRefresh(st, sl) ==
    [c \in Clients |-> IF c \in SubClients(sl) THEN st[c]
                       ELSE IF st[c].st = "gone" THEN Stale("fresh", 0)
                       ELSE IF st[c].st = "once" THEN Stale("served", st[c].record)
                       ELSE st[c]]

\* The pump selected sub_list.get(current_point), the subscriber of client
\* c, for the record at offset off.
StaleSelect(st, c, off) ==
    [st EXCEPT ![c] = IF @.st = "gone" THEN Stale("once", off)
                      ELSE IF @.st = "once" /\ @.record # off THEN Stale("twice", off)
                      ELSE IF @.st \in {"fresh", "served"} THEN Stale("late", off)
                      ELSE @]

\* What a member has been sent since it joined the group ("none" for a
\* client that is not a member):
\*   "none"    neither the retained messages nor a record of the normal flow;
\*   "sent"    the retained messages, before any record of the normal flow;
\*   "missed"  a record of the normal flow without the retained messages
\*             before it.
RetainStates == {"none", "sent", "missed"}

\* try_send_retain_message for every subscriber of the cloned sub_list: the
\* retained messages are sent to each of them.
try_send_retain_message(sub_list) ==
    [c \in Clients |-> IF c \in SubClients(sub_list) /\ retain_sent[c] = "none"
                       THEN "sent" ELSE retain_sent[c]]

\* A pump sends a PUBLISH of the normal flow to client c.
NormalFlow(c) ==
    [retain_sent EXCEPT ![c] =
        IF @ = "none" /\ c \in SubClients(share_leader_subscribe.sub_list)
        THEN "missed" ELSE @]

\* --------------------------------------------------- ingress (not in pumps)
\* append_topic_message: a publisher's record is appended to the topic log.
AppendRecord(m) ==
    /\ Len(log) < log_cap
    /\ log' = Append(log, m)
    /\ UNCHANGED <<cluster_max_qos, pump_cap, share_leader_subscribe, share_leader_push_thread,
                   tick, pump, stop_chan, next_pump, log_cap, group_offset,
                   pkid_counter, commit_log, last_commit, dropped, nolocal_dropped, rr>>
    /\ UNCHANGED <<ledgerVars, pushVars, buildVars, keepVars, memberVars, auxVars>>

\* parse_subscribe on the leader node: the member is inserted into the
\* group's sub_list (the entry is created when the key is absent).
SubscribeShare(c, q, nl) ==
    /\ c \notin SubClients(share_leader_subscribe.sub_list)
    /\ share_leader_subscribe' =
         [present |-> TRUE,
          sub_list |-> Append(share_leader_subscribe.sub_list, Subscriber(c, q, nl))]
    /\ rr' = IF next_pump > 1 THEN RRVoid ELSE rr
    /\ retain_sent' = [retain_sent EXCEPT ![c] = "none"]
    /\ stale' = StaleJoin(c)
    /\ UNCHANGED <<cluster_max_qos, pump_cap, share_leader_push_thread, tick, pump, stop_chan,
                   next_pump, log, log_cap, group_offset, pkid_counter, commit_log,
                   last_commit, dropped, nolocal_dropped>>
    /\ UNCHANGED <<ledgerVars, pushVars, buildVars, keepVars, auxVars>>

\* remove_subscribe: the member's entry is deleted; a group that becomes
\* empty remains until the lifecycle tick removes it.
UnsubscribeShare(c) ==
    /\ c \in SubClients(share_leader_subscribe.sub_list)
    /\ share_leader_subscribe' =
         [share_leader_subscribe EXCEPT !.sub_list = RemoveClient(@, c)]
    /\ rr' = IF next_pump > 1 THEN RRVoid ELSE rr
    /\ retain_sent' = [retain_sent EXCEPT ![c] = "none"]
    /\ stale' = StaleLeave(c)
    /\ UNCHANGED <<cluster_max_qos, pump_cap, share_leader_push_thread, tick, pump, stop_chan,
                   next_pump, log, log_cap, group_offset, pkid_counter, commit_log,
                   last_commit, dropped, nolocal_dropped>>
    /\ UNCHANGED <<ledgerVars, pushVars, buildVars, keepVars, auxVars>>

\* ---------------------------------------------------- lifecycle tick
\* sx.send(true) on a pump's stop channel: Ok while the pump task holds its
\* receiver; the channel has capacity 1, a second unread value makes the
\* receiver lag.
SendOk(h) == pump[h].pc # "done"
SendStop(h) == [stop_chan EXCEPT ![h] = Min(2, @ + 1)]

TickIdle == [pc |-> "sleep", snap |-> NoGroup]

\* start_push_thread: share_leader_subscribe.clone()
TickBegin ==
    /\ tick.pc = "sleep"
    /\ tick' = IF share_leader_subscribe.present
               THEN [pc |-> "stop", snap |-> share_leader_subscribe]
               ELSE [pc |-> "gc", snap |-> NoGroup]
    /\ UNCHANGED <<cluster_max_qos, pump_cap, share_leader_subscribe, share_leader_push_thread,
                   pump, stop_chan, next_pump, log, log_cap, group_offset,
                   pkid_counter, commit_log, last_commit, dropped, nolocal_dropped, rr>>
    /\ UNCHANGED <<ledgerVars, pushVars, buildVars, keepVars, memberVars, auxVars>>

\* start_push_thread: a group whose cloned sub_list is empty has its pump
\* stopped and its entry removed.
TickStop ==
    /\ tick.pc = "stop"
    /\ tick' = [tick EXCEPT !.pc = "spawn"]
    /\ IF Len(tick.snap.sub_list) = 0 /\ share_leader_push_thread # NoPump
          /\ SendOk(share_leader_push_thread)
       THEN /\ stop_chan' = SendStop(share_leader_push_thread)
            /\ share_leader_subscribe' = NoGroup
            /\ rr' = IF share_leader_subscribe.sub_list # <<>> THEN RRVoid ELSE rr
       ELSE UNCHANGED <<stop_chan, share_leader_subscribe, rr>>
    /\ UNCHANGED <<cluster_max_qos, pump_cap, share_leader_push_thread, pump, next_pump, log,
                   log_cap, group_offset, pkid_counter, commit_log, last_commit, dropped, nolocal_dropped>>
    /\ UNCHANGED <<ledgerVars, pushVars, buildVars, keepVars, memberVars, auxVars>>

\* Variant of TickSpawn: only the first pump of a key is ever spawned.
TickSpawn_OnlyFirst ==
    /\ tick.pc = "spawn"
    /\ tick' = [pc |-> "gc", snap |-> NoGroup]
    /\ IF share_leader_push_thread = NoPump /\ next_pump = 1
       THEN /\ share_leader_push_thread' = next_pump
            /\ pump' = [pump EXCEPT ![next_pump] = [IdlePump EXCEPT !.pc = "start"]]
            /\ next_pump' = next_pump + 1
            /\ retain_sent' = try_send_retain_message(tick.snap.sub_list)
       ELSE UNCHANGED <<share_leader_push_thread, pump, next_pump, retain_sent>>
    /\ UNCHANGED <<cluster_max_qos, pump_cap, share_leader_subscribe, stop_chan, log, log_cap,
                   group_offset, pkid_counter, commit_log, last_commit, dropped, nolocal_dropped, rr,
                   stale>>
    /\ UNCHANGED <<ledgerVars, pushVars, buildVars, keepVars, auxVars>>

\* start_push_thread / push_by_round_robin: a key without a registered
\* handle gets a new pump task and its handle is registered.
TickSpawn ==
    /\ tick.pc = "spawn"
    /\ tick' = [pc |-> "gc", snap |-> NoGroup]
    /\ IF share_leader_push_thread = NoPump
       THEN /\ next_pump <= pump_cap
            /\ share_leader_push_thread' = next_pump
            /\ pump' = [pump EXCEPT ![next_pump] = [IdlePump EXCEPT !.pc = "start"]]
            /\ next_pump' = next_pump + 1
            /\ retain_sent' = try_send_retain_message(tick.snap.sub_list)
       ELSE UNCHANGED <<share_leader_push_thread, pump, next_pump, retain_sent>>
    /\ UNCHANGED <<cluster_max_qos, pump_cap, share_leader_subscribe, stop_chan, log, log_cap,
                   group_offset, pkid_counter, commit_log, last_commit, dropped, nolocal_dropped, rr,
                   stale>>
    /\ UNCHANGED <<ledgerVars, pushVars, buildVars, keepVars, auxVars>>

\* try_thread_gc: a registered handle whose key is gone is sent stop and
\* removed.
TickGc ==
    /\ tick.pc = "gc"
    /\ tick' = TickIdle
    /\ IF share_leader_push_thread # NoPump /\ ~share_leader_subscribe.present
          /\ SendOk(share_leader_push_thread)
       THEN /\ stop_chan' = SendStop(share_leader_push_thread)
            /\ share_leader_push_thread' = NoPump
       ELSE UNCHANGED <<stop_chan, share_leader_push_thread>>
    /\ UNCHANGED <<cluster_max_qos, pump_cap, share_leader_subscribe, pump, next_pump, log,
                   log_cap, group_offset, pkid_counter, commit_log, last_commit, dropped, nolocal_dropped, rr>>
    /\ UNCHANGED <<ledgerVars, pushVars, buildVars, keepVars, memberVars, auxVars>>


\* ---------------------------------------------------- shared-leader pump
\* Variant of PumpRead: a read that failed or was empty returns cursor 0.
PumpRead_ResetOnEmpty(p) ==
    /\ pump[p].pc \in {"start", "read"}
    /\ \E read_ok \in BOOLEAN :
       LET pr == pump[p]
           sl == IF pr.pc = "start" THEN build_share_leader_sub_list ELSE pr.sl0
           cp == IF pr.pc = "start" THEN 0 ELSE pr.cp0
           res == read_topic_message(calc_record_num(Len(sl)))
       IN pump' = [pump EXCEPT ![p] =
                     IF ~read_ok \/ res[1] > res[2]
                     THEN [IdlePump EXCEPT !.pc = "read", !.cursor_point = 0,
                                           !.sub_list = sl, !.cp0 = 0, !.sl0 = sl,
                                           !.hi = pr.hi]
                     ELSE [IdlePump EXCEPT !.pc = "pick", !.cursor_point = cp,
                                           !.sub_list = sl, !.cp0 = cp, !.sl0 = sl,
                                           !.lo = res[1], !.hi = res[2]]]
    /\ stale' = IF pump[p].pc = "start"
                THEN [stale EXCEPT ![p] = StaleRefresh(@, build_share_leader_sub_list)]
                ELSE stale
    /\ UNCHANGED <<cluster_max_qos, pump_cap, share_leader_subscribe, share_leader_push_thread,
                   tick, stop_chan, next_pump, log, log_cap, group_offset,
                   pkid_counter, commit_log, last_commit, dropped, nolocal_dropped, rr,
                   retain_sent>>
    /\ UNCHANGED <<ledgerVars, pushVars, buildVars, keepVars, auxVars>>

\* The pump task: sub_list and cursor_point are set when the task starts;
\* every pass of the loop calls read_message_process, which reads a batch.
\* read_ok = FALSE: read_topic_message returned Err; then, and when the
\* result is empty, read_message_process sleeps and returns its arguments.
PumpRead(p) ==
    /\ pump[p].pc \in {"start", "read"}
    /\ \E read_ok \in BOOLEAN :
       LET pr == pump[p]
           sl == IF pr.pc = "start" THEN build_share_leader_sub_list ELSE pr.sl0
           cp == IF pr.pc = "start" THEN 0 ELSE pr.cp0
           res == read_topic_message(calc_record_num(Len(sl)))
       IN pump' = [pump EXCEPT ![p] =
                     IF ~read_ok \/ res[1] > res[2]
                     THEN [IdlePump EXCEPT !.pc = "read", !.cursor_point = cp,
                                           !.sub_list = sl, !.cp0 = cp, !.sl0 = sl,
                                           !.hi = pr.hi]
                     ELSE [IdlePump EXCEPT !.pc = "pick", !.cursor_point = cp,
                                           !.sub_list = sl, !.cp0 = cp, !.sl0 = sl,
                                           !.lo = res[1], !.hi = res[2]]]
    /\ stale' = IF pump[p].pc = "start"
                THEN [stale EXCEPT ![p] = StaleRefresh(@, build_share_leader_sub_list)]
                ELSE stale
    /\ UNCHANGED <<cluster_max_qos, pump_cap, share_leader_subscribe, share_leader_push_thread,
                   tick, stop_chan, next_pump, log, log_cap, group_offset,
                   pkid_counter, commit_log, last_commit, dropped, nolocal_dropped, rr,
                   retain_sent>>
    /\ UNCHANGED <<ledgerVars, pushVars, buildVars, keepVars, auxVars>>

\* The sub_list of the current pass of the inner loop: rebuilt from the
\* group's entry when the cursor is not inside the snapshot.
RefreshedList(pr) ==
    IF pr.cursor_point < Len(pr.sub_list)
    THEN pr.sub_list
    ELSE build_share_leader_sub_list

\* Variant of PumpPick: after a PUBLISH that could not be written the cursor
\* stays at the member that failed.
PumpPick_RetrySameMember(p, send_ok) ==
    /\ pump[p].pc = "pick"
    /\ LET pr == [pump[p] EXCEPT !.puback_timeout = FALSE]
           msg == log[pr.lo]
           refresh == ~(pr.cursor_point < Len(pr.sub_list))
           sl == RefreshedList(pr)
           current_point == IF refresh THEN 0 ELSE pr.cursor_point
           st == IF refresh THEN StaleRefresh(stale[p], sl) ELSE stale[p]
       IN /\ stale' = [stale EXCEPT ![p] =
               IF ~msg.valid THEN @
               ELSE IF Len(sl) = 0 THEN StaleRefresh(st, build_share_leader_sub_list)
               ELSE IF pr.loop_times > Len(sl) THEN st
               ELSE StaleSelect(st, sl[current_point + 1].client_id, pr.lo)]
          /\ retain_sent' =
               IF /\ msg.valid /\ Len(sl) > 0 /\ pr.loop_times <= Len(sl) /\ send_ok
                  /\ ~build_publish(cluster_max_qos, sl[current_point + 1], TopicName, msg).none
               THEN NormalFlow(sl[current_point + 1].client_id)
               ELSE retain_sent
          /\ IF ~msg.valid
             THEN \* decode_record failed: the offset is committed, the batch ends
                  /\ commit_group_offset(pr.lo, "", 0, 0, NoAck)
                  /\ pump' = [pump EXCEPT ![p] = NextRecord([pr EXCEPT !.hi = pr.lo])]
                  /\ UNCHANGED <<pkid_counter, dropped, nolocal_dropped, rr, pkid_info,
                                 ack_packet>>
             ELSE IF Len(sl) = 0
             THEN /\ pump' = [pump EXCEPT ![p].sub_list = build_share_leader_sub_list]
                  /\ UNCHANGED <<group_offset, commit_log, last_commit, pkid_counter, dropped,
                                 nolocal_dropped, rr, pkid_info, ack_packet>>
             ELSE IF pr.loop_times > Len(sl)
             THEN /\ pump' = [pump EXCEPT ![p] = NextRecord([pr EXCEPT !.sub_list = sl])]
                  /\ dropped' = dropped \cup {pr.lo}
                  /\ UNCHANGED <<group_offset, commit_log, last_commit, pkid_counter,
                                 nolocal_dropped, rr, pkid_info, ack_packet>>
             ELSE LET subscribe == sl[current_point + 1]
                      c == subscribe.client_id
                      pr1 == [pr EXCEPT !.sub_list = sl, !.cursor_point = current_point + 1]
                      publish == build_publish(cluster_max_qos, subscribe, TopicName, msg)
                      sent == [pr1 EXCEPT !.tried = Append(@,
                                 [client |-> c, st |-> "wait"])]
                  IN IF publish.none
                     THEN /\ pump' = [pump EXCEPT ![p] = NextRecord(pr1)]
                          /\ nolocal_dropped' = nolocal_dropped \cup {pr.lo}
                          /\ UNCHANGED <<group_offset, commit_log, last_commit, pkid_counter,
                                         dropped, rr, pkid_info, ack_packet>>
                     ELSE IF publish.qos = 0
                     THEN /\ send_ok
                          /\ pump' = [pump EXCEPT ![p] = [OkAttempt(sent) EXCEPT !.pc = "commit0"]]
                          /\ rr' = RRDeliver(c)
                          /\ UNCHANGED <<group_offset, commit_log, last_commit, pkid_counter,
                                         dropped, nolocal_dropped, pkid_info, ack_packet>>
                     ELSE /\ pkid_counter' = [pkid_counter EXCEPT ![c] = get_pkid(c)]
                          /\ pkid_info' = save_pkid_info(c, get_pkid(c))
                          /\ ack_packet' = add_ack_packet(c, get_pkid(c))
                          /\ pump' = [pump EXCEPT ![p] =
                               IF send_ok
                               THEN [sent EXCEPT !.pkid = get_pkid(c),
                                                 !.pc = IF publish.qos = 1 THEN "ack1" ELSE "rec2"]
                               ELSE [pr EXCEPT !.pkid = 0, !.loop_times = @ + 1]]
                          /\ rr' = IF send_ok THEN rr ELSE RRFail(c)
                          /\ UNCHANGED <<group_offset, commit_log, last_commit, dropped, nolocal_dropped>>
    /\ UNCHANGED <<cluster_max_qos, pump_cap, share_leader_subscribe, share_leader_push_thread,
                   tick, stop_chan, next_pump, log, log_cap, pubrel_sent>>
    /\ UNCHANGED <<pushVars, buildVars, keepVars, auxVars>>

\* One pass of the inner loop of read_message_process for the current
\* record: refresh of the member list, the loop_times test, selection of the
\* member, build_publish and the send of the PUBLISH.  send_ok = FALSE: the
\* PUBLISH could not be written (no connection id, payload over
\* max_packet_size, response queue error).
\* publish_message_qos0 (sub_common) returns once the QoS 0 PUBLISH is
\* written, so the QoS 0 branch is taken with send_ok only.
PumpPick(p, send_ok) ==
    /\ pump[p].pc = "pick"
    /\ LET pr == [pump[p] EXCEPT !.puback_timeout = FALSE]
           msg == log[pr.lo]
           refresh == ~(pr.cursor_point < Len(pr.sub_list))
           sl == RefreshedList(pr)
           current_point == IF refresh THEN 0 ELSE pr.cursor_point
           st == IF refresh THEN StaleRefresh(stale[p], sl) ELSE stale[p]
       IN /\ stale' = [stale EXCEPT ![p] =
               IF ~msg.valid THEN @
               ELSE IF Len(sl) = 0 THEN StaleRefresh(st, build_share_leader_sub_list)
               ELSE IF pr.loop_times > Len(sl) THEN st
               ELSE StaleSelect(st, sl[current_point + 1].client_id, pr.lo)]
          /\ retain_sent' =
               IF /\ msg.valid /\ Len(sl) > 0 /\ pr.loop_times <= Len(sl) /\ send_ok
                  /\ ~build_publish(cluster_max_qos, sl[current_point + 1], TopicName, msg).none
               THEN NormalFlow(sl[current_point + 1].client_id)
               ELSE retain_sent
          /\ IF ~msg.valid
             THEN \* decode_record failed: the offset is committed, the batch ends
                  /\ commit_group_offset(pr.lo, "", 0, 0, NoAck)
                  /\ pump' = [pump EXCEPT ![p] = NextRecord([pr EXCEPT !.hi = pr.lo])]
                  /\ UNCHANGED <<pkid_counter, dropped, nolocal_dropped, rr, pkid_info,
                                 ack_packet>>
             ELSE IF Len(sl) = 0
             THEN /\ pump' = [pump EXCEPT ![p].sub_list = build_share_leader_sub_list]
                  /\ UNCHANGED <<group_offset, commit_log, last_commit, pkid_counter, dropped,
                                 nolocal_dropped, rr, pkid_info, ack_packet>>
             ELSE IF pr.loop_times > Len(sl)
             THEN /\ pump' = [pump EXCEPT ![p] = NextRecord([pr EXCEPT !.sub_list = sl])]
                  /\ dropped' = dropped \cup {pr.lo}
                  /\ UNCHANGED <<group_offset, commit_log, last_commit, pkid_counter,
                                 nolocal_dropped, rr, pkid_info, ack_packet>>
             ELSE LET subscribe == sl[current_point + 1]
                      c == subscribe.client_id
                      pr1 == [pr EXCEPT !.sub_list = sl, !.cursor_point = current_point + 1]
                      publish == build_publish(cluster_max_qos, subscribe, TopicName, msg)
                      sent == [pr1 EXCEPT !.tried = Append(@,
                                 [client |-> c, st |-> "wait"])]
                  IN IF publish.none
                     THEN /\ pump' = [pump EXCEPT ![p] = NextRecord(pr1)]
                          /\ nolocal_dropped' = nolocal_dropped \cup {pr.lo}
                          /\ UNCHANGED <<group_offset, commit_log, last_commit, pkid_counter,
                                         dropped, rr, pkid_info, ack_packet>>
                     ELSE IF publish.qos = 0
                     THEN /\ send_ok
                          /\ pump' = [pump EXCEPT ![p] = [OkAttempt(sent) EXCEPT !.pc = "commit0"]]
                          /\ rr' = RRDeliver(c)
                          /\ UNCHANGED <<group_offset, commit_log, last_commit, pkid_counter,
                                         dropped, nolocal_dropped, pkid_info, ack_packet>>
                     ELSE /\ pkid_counter' = [pkid_counter EXCEPT ![c] = get_pkid(c)]
                          /\ pkid_info' = save_pkid_info(c, get_pkid(c))
                          /\ ack_packet' = add_ack_packet(c, get_pkid(c))
                          /\ pump' = [pump EXCEPT ![p] =
                               IF send_ok
                               THEN [sent EXCEPT !.pkid = get_pkid(c),
                                                 !.pc = IF publish.qos = 1 THEN "ack1" ELSE "rec2"]
                               ELSE [pr1 EXCEPT !.pkid = 0, !.loop_times = @ + 1]]
                          /\ rr' = IF send_ok THEN rr ELSE RRFail(c)
                          /\ UNCHANGED <<group_offset, commit_log, last_commit, dropped, nolocal_dropped>>
    /\ UNCHANGED <<cluster_max_qos, pump_cap, share_leader_subscribe, share_leader_push_thread,
                   tick, stop_chan, next_pump, log, log_cap, pubrel_sent>>
    /\ UNCHANGED <<pushVars, buildVars, keepVars, auxVars>>

\* QoS 0: loop_commit_offset after publish_message_qos0.
PumpCommit0(p) ==
    /\ pump[p].pc = "commit0"
    /\ LET pr == pump[p]
       IN /\ commit_group_offset(pr.lo, Selected(pr).client_id, 0, 0, NoAck)
          /\ pump' = [pump EXCEPT ![p] = NextRecord(pr)]
    /\ UNCHANGED <<cluster_max_qos, pump_cap, share_leader_subscribe, share_leader_push_thread,
                   tick, stop_chan, next_pump, log, log_cap, pkid_counter, dropped, nolocal_dropped, rr>>
    /\ UNCHANGED <<ledgerVars, pushVars, buildVars, keepVars, memberVars, auxVars>>

\* Variant of PumpAck1: the Ok arm removes the pkid but leaves its ack packet.
PumpAck1_KeepAckPacket(p, data) ==
    /\ pump[p].pc = "ack1"
    /\ puback_matches(data, pump[p].pkid)
    /\ commit_group_offset(pump[p].lo, Selected(pump[p]).client_id, 1, pump[p].pkid, data)
    /\ pkid_info' = remove_pkid_info(Selected(pump[p]).client_id, pump[p].pkid)
    /\ pump' = [pump EXCEPT ![p] = NextRecord(OkAttempt(pump[p]))]
    /\ rr' = RRDeliver(Selected(pump[p]).client_id)
    /\ UNCHANGED <<cluster_max_qos, pump_cap, share_leader_subscribe, share_leader_push_thread,
                   tick, stop_chan, next_pump, log, log_cap, pkid_counter, dropped,
                   nolocal_dropped, pubrel_sent, ack_packet>>
    /\ UNCHANGED <<pushVars, buildVars, keepVars, memberVars, auxVars>>

\* QoS 1: share_leader_publish_message_qos1 after the PUBLISH was written:
\* wait_packet_ack returned data (NoAck: timeout).  Ok(()): the offset is
\* committed and the pkid and its ack packet are removed; Err: loop_times + 1.
PumpAck1(p, data) ==
    /\ pump[p].pc = "ack1"
    /\ LET pr == pump[p]
           c == Selected(pr).client_id
       IN IF puback_matches(data, pr.pkid)
          THEN /\ commit_group_offset(pr.lo, c, 1, pr.pkid, data)
               /\ pkid_info' = remove_pkid_info(c, pr.pkid)
               /\ ack_packet' = remove_ack_packet(c, pr.pkid)
               /\ pump' = [pump EXCEPT ![p] = NextRecord(OkAttempt(pr))]
               /\ rr' = RRDeliver(c)
          ELSE /\ pump' = [pump EXCEPT ![p] =
                    [FailAttempt(pr) EXCEPT !.pkid = 0,
                                            !.puback_timeout = (data = NoAck)]]
               /\ rr' = RRFail(c)
               /\ UNCHANGED <<group_offset, commit_log, last_commit, pkid_info, ack_packet>>
    /\ UNCHANGED <<cluster_max_qos, pump_cap, share_leader_subscribe, share_leader_push_thread,
                   tick, stop_chan, next_pump, log, log_cap, pkid_counter, dropped,
                   nolocal_dropped, pubrel_sent>>
    /\ UNCHANGED <<pushVars, buildVars, keepVars, memberVars, auxVars>>

\* Variant of PumpRec2: on the matching PUBREC the PUBREL is sent at once,
\* without the commit.
PumpRec2_RelFirst(p, data) ==
    /\ pump[p].pc = "rec2"
    /\ pubrec_matches(data, pump[p].pkid)
    /\ pump' = [pump EXCEPT ![p] = [OkAttempt(pump[p]) EXCEPT !.pc = "comp2"]]
    /\ pubrel_sent' = pubrel_sent \cup
         {[client |-> Selected(pump[p]).client_id, pkid |-> pump[p].pkid,
           offset |-> pump[p].lo]}
    /\ rr' = RRDeliver(Selected(pump[p]).client_id)
    /\ UNCHANGED <<cluster_max_qos, pump_cap, share_leader_subscribe, share_leader_push_thread,
                   tick, stop_chan, next_pump, log, log_cap, pkid_counter, dropped,
                   nolocal_dropped, group_offset, commit_log, last_commit, pkid_info,
                   ack_packet>>
    /\ UNCHANGED <<pushVars, buildVars, keepVars, memberVars, auxVars>>

\* QoS 2, step 2 of share_leader_publish_message_qos2: wait for PUBREC; on
\* the matching PUBREC the offset is committed.
PumpRec2(p, data) ==
    /\ pump[p].pc = "rec2"
    /\ LET pr == pump[p]
           c == Selected(pr).client_id
       IN IF data = NoAck
          THEN /\ pump' = [pump EXCEPT ![p] =
                    [FailAttempt(pr) EXCEPT !.pkid = 0]]
               /\ rr' = RRFail(c)
               /\ UNCHANGED <<group_offset, commit_log, last_commit>>
          ELSE IF pubrec_matches(data, pr.pkid)
          THEN /\ commit_group_offset(pr.lo, c, 2, pr.pkid, data)
               /\ pump' = [pump EXCEPT ![p] = [OkAttempt(pr) EXCEPT !.pc = "rel2"]]
               /\ rr' = RRDeliver(c)
          ELSE UNCHANGED <<pump, rr, group_offset, commit_log, last_commit>>
    /\ UNCHANGED <<cluster_max_qos, pump_cap, share_leader_subscribe, share_leader_push_thread,
                   tick, stop_chan, next_pump, log, log_cap, pkid_counter, dropped,
                   nolocal_dropped, pkid_info, ack_packet, pubrel_sent>>
    /\ UNCHANGED <<pushVars, buildVars, keepVars, memberVars, auxVars>>

\* QoS 2, step 3: qos2_send_pubrel; also its call in the timeout arm of the
\* wait for PUBCOMP.
PumpRel2(p) ==
    /\ pump[p].pc = "rel2" \/ (pump[p].pc = "comp2" /\ pump[p].rel_due)
    /\ pump' = [pump EXCEPT ![p].pc = "comp2", ![p].rel_due = FALSE]
    /\ pubrel_sent' = pubrel_sent \cup
         {[client |-> Selected(pump[p]).client_id, pkid |-> pump[p].pkid,
           offset |-> pump[p].lo]}
    /\ UNCHANGED <<cluster_max_qos, pump_cap, share_leader_subscribe, share_leader_push_thread,
                   tick, stop_chan, next_pump, log, log_cap, group_offset,
                   pkid_counter, commit_log, last_commit, dropped, nolocal_dropped, rr,
                   pkid_info, ack_packet>>
    /\ UNCHANGED <<pushVars, buildVars, keepVars, memberVars, auxVars>>

\* QoS 2, step 4: wait for PUBCOMP.  The matching PUBCOMP removes the pkid
\* and its ack packet; on a timeout qos2_send_pubrel is called again and
\* the wait starts over; any other packet is ignored.
PumpComp2(p, data) ==
    /\ pump[p].pc = "comp2" /\ ~pump[p].rel_due
    /\ LET pr == pump[p]
           c == Selected(pr).client_id
       IN IF pubcomp_matches(data, pr.pkid)
          THEN /\ pkid_info' = remove_pkid_info(c, pr.pkid)
               /\ ack_packet' = remove_ack_packet(c, pr.pkid)
               /\ pump' = [pump EXCEPT ![p] = NextRecord(pr)]
               /\ comp_release' = Release(data, pr.pkid)
               /\ UNCHANGED pubrel_sent
          ELSE /\ pump' = IF data = NoAck THEN [pump EXCEPT ![p].rel_due = TRUE] ELSE pump
               /\ UNCHANGED <<pubrel_sent, pkid_info, ack_packet, comp_release>>
    /\ UNCHANGED <<cluster_max_qos, pump_cap, share_leader_subscribe, share_leader_push_thread,
                   tick, stop_chan, next_pump, log, log_cap, group_offset,
                   pkid_counter, commit_log, last_commit, dropped, nolocal_dropped, rr>>
    /\ UNCHANGED <<pushVars, buildVars, keepVars, memberVars, authVars, storeVars, calc>>

\* select!: the stop receiver returned Ok(true): the loop breaks and the task
\* removes the key from share_leader_push_thread.
PumpStop(p) ==
    /\ Running(p)
    /\ stop_chan[p] = 1
    /\ pump' = [pump EXCEPT ![p] = DonePump]
    /\ stop_chan' = [stop_chan EXCEPT ![p] = 0]
    /\ share_leader_push_thread' = NoPump
    /\ UNCHANGED <<cluster_max_qos, pump_cap, share_leader_subscribe, tick, next_pump, log,
                   log_cap, group_offset, pkid_counter, commit_log, last_commit, dropped, nolocal_dropped, rr>>
    /\ UNCHANGED <<ledgerVars, pushVars, buildVars, keepVars, memberVars, auxVars>>

\* select!: the stop receiver returned Err(Lagged): the branch completes, the
\* read_message_process future is dropped, and the loop calls it again with
\* the cursor_point and sub_list of the last completed call.
PumpLagged(p) ==
    /\ Running(p)
    /\ stop_chan[p] = 2
    /\ stop_chan' = [stop_chan EXCEPT ![p] = 1]
    /\ LET pr == pump[p]
           sl == IF pr.pc = "start" THEN build_share_leader_sub_list ELSE pr.sl0
           cp == IF pr.pc = "start" THEN 0 ELSE pr.cp0
       IN pump' = [pump EXCEPT ![p] =
                     [IdlePump EXCEPT !.pc = "read", !.cursor_point = cp,
                                      !.sub_list = sl, !.cp0 = cp, !.sl0 = sl]]
    /\ UNCHANGED <<cluster_max_qos, pump_cap, share_leader_subscribe, share_leader_push_thread,
                   tick, next_pump, log, log_cap, group_offset, pkid_counter,
                   commit_log, last_commit, dropped, nolocal_dropped, rr>>
    /\ UNCHANGED <<ledgerVars, pushVars, buildVars, keepVars, memberVars, auxVars>>

\* ------------------------------------------- per-topic push pump (push.rs)
\* handler::subscribe::max_qos
max_qos(a, b) == IF a >= b THEN a ELSE b

\* The Publish literal of topic_sub_push_thread.
push_publish(subscribe, topic_name, msg) ==
    [none |-> FALSE, dup |-> FALSE, qos |-> max_qos(msg.qos, subscribe.qos),
     pkid |-> subscribe.packet_identifier, retain |-> FALSE,
     topic |-> topic_name, payload |-> msg.payload]

\* The topics, in the order the iteration over topic_subscribe visits them.
TopicOrder == <<"t/a", "t/b">>
TopicIds == {TopicOrder[i] : i \in DOMAIN TopicOrder}

NoConnection == 0
ConnectionId(c) == IF c = "c1" THEN 1 ELSE 2
\* The protocol of a client's connection.
Protocol(c) == IF c = "c1" THEN "MQTT4" ELSE "MQTT5"
PacketIdentifier == 2
record_num == 5

NoTopic == [present |-> FALSE, sub_list |-> {}]

PushSubscriber(c, q) ==
    [client_id |-> c, qos |-> q, protocol |-> Protocol(c),
     packet_identifier |-> PacketIdentifier]

\* The record appended to topic t at offset n; the payload names both.
PushMessage(t, n, q) ==
    [qos |-> q, client_id |-> "pub", payload |-> [topic |-> t, offset |-> n]]

IdlePushPump == [pc |-> "idle", topic_sub |-> <<>>, lo |-> 0, hi |-> 0]

\* subscribe_manager.topic_subscribe.clone(): the entries, in iteration order
CloneTopicSubscribe ==
    LET present == SelectSeq(TopicOrder, LAMBDA t : topic_subscribe[t].present)
    IN [i \in DOMAIN present |->
          [topic_name |-> present[i], sub_list |-> topic_subscribe[present[i]].sub_list]]

\* Variant of PushPackets: every packet goes to response_queue_sx4.
PushPackets_Queue4(topic_id, topic_name, sub_list, lo, hi) ==
    {[queue |-> 4,
      connection_id |-> session_info[s.client_id],
      packet |-> push_publish(s, topic_name, topic_log[topic_id][o])] :
        s \in {x \in sub_list : session_info[x.client_id] # NoConnection},
        o \in lo .. hi}

\* The packets of the push loop: every subscriber of sub_list that has a
\* connection id, every record of the batch lo..hi of topic_id's log.
PushPackets(topic_id, topic_name, sub_list, lo, hi) ==
    {[queue |-> IF s.protocol = "MQTT4" THEN 4 ELSE 5,
      connection_id |-> session_info[s.client_id],
      packet |-> push_publish(s, topic_name, topic_log[topic_id][o])] :
        s \in {x \in sub_list : session_info[x.client_id] # NoConnection},
        o \in lo .. hi}

NeverSubscribed == -1

\* parse_subscribe of an exclusive subscription (a client subscribes to a
\* topic once in a run).
SubscribeExclusive(c, t, q) ==
    /\ \A s \in topic_subscribe[t].sub_list : s.client_id # c
    /\ subscribed_at[t][c] = NeverSubscribed
    /\ topic_subscribe' = [topic_subscribe EXCEPT ![t] =
         [present |-> TRUE, sub_list |-> @.sub_list \cup {PushSubscriber(c, q)}]]
    /\ subscribed_at' = [subscribed_at EXCEPT ![t][c] = Len(topic_log[t])]
    /\ UNCHANGED <<topic_push_thread, push_stop, push_pump, topic_log, topic_offset,
                   session_info, response_queue>>
    /\ UNCHANGED <<leaderVars, ledgerVars, buildVars, keepVars, memberVars, auxVars>>

\* remove_subscribe of an exclusive subscription: the topic's entry stays.
UnsubscribeExclusive(c, t) ==
    /\ \E s \in topic_subscribe[t].sub_list : s.client_id = c
    /\ topic_subscribe' = [topic_subscribe EXCEPT ![t].sub_list =
         {s \in @ : s.client_id # c}]
    /\ UNCHANGED <<topic_push_thread, push_stop, push_pump, topic_log, topic_offset,
                   session_info, response_queue, subscribed_at>>
    /\ UNCHANGED <<leaderVars, ledgerVars, buildVars, keepVars, memberVars, auxVars>>

RECURSIVE SumLen(_, _)
SumLen(logs, ts) ==
    IF ts = {} THEN 0
    ELSE LET t == CHOOSE x \in ts : TRUE
         IN Len(logs[t]) + SumLen(logs, ts \ {t})

\* The records appended to the topic logs so far.
RecordsAppended == SumLen(topic_log, TopicIds)

\* append_topic_message
AppendTopicMessage(t, q) ==
    /\ RecordsAppended < MaxTopicLog
    /\ topic_log' = [topic_log EXCEPT ![t] = Append(@, PushMessage(t, Len(@) + 1, q))]
    /\ UNCHANGED <<topic_subscribe, topic_push_thread, push_stop, push_pump,
                   topic_offset, session_info, response_queue, subscribed_at>>
    /\ UNCHANGED <<leaderVars, ledgerVars, buildVars, keepVars, memberVars, auxVars>>

\* One pass of the loop of PushServer::start over topic_subscribe.clone():
\* a topic with an empty list gets `true` sent to its pump and is removed
\* from topic_subscribe; a topic with subscribers and no entry in
\* topic_push_thread gets an entry and a spawned pump.
PushServerStart ==
    LET snapshot == topic_subscribe
        Empty(t) == snapshot[t].present /\ snapshot[t].sub_list = {}
        Spawned(t) == /\ snapshot[t].present /\ snapshot[t].sub_list # {}
                      /\ t \notin topic_push_thread
    IN /\ \E t \in TopicIds : snapshot[t].present
       /\ push_stop' = [t \in TopicIds |->
            IF Empty(t) /\ t \in topic_push_thread /\ push_pump[t].pc # "done"
            THEN TRUE ELSE push_stop[t]]
       /\ topic_subscribe' = [t \in TopicIds |->
            IF Empty(t) THEN NoTopic ELSE topic_subscribe[t]]
       /\ topic_push_thread' = topic_push_thread \cup {t \in TopicIds : Spawned(t)}
       /\ push_pump' = [t \in TopicIds |->
            IF Spawned(t) THEN [IdlePushPump EXCEPT !.pc = "recv"] ELSE push_pump[t]]
       /\ UNCHANGED <<topic_log, topic_offset, session_info, response_queue,
                      subscribed_at>>
       /\ UNCHANGED <<leaderVars, ledgerVars, buildVars, keepVars, memberVars, auxVars>>

\* The spawned task's loop: rx.try_recv(), break on `true`, else
\* topic_sub_push_thread is called (and does not return).
PushTryRecv(t) ==
    /\ push_pump[t].pc = "recv"
    /\ IF push_stop[t]
       THEN /\ push_pump' = [push_pump EXCEPT ![t] = [IdlePushPump EXCEPT !.pc = "done"]]
            /\ push_stop' = [push_stop EXCEPT ![t] = FALSE]
       ELSE /\ push_pump' = [push_pump EXCEPT ![t].pc = "clone"]
            /\ UNCHANGED push_stop
    /\ UNCHANGED <<topic_subscribe, topic_push_thread, topic_log, topic_offset,
                   session_info, response_queue, subscribed_at>>
    /\ UNCHANGED <<leaderVars, ledgerVars, buildVars, keepVars, memberVars, auxVars>>

\* topic_sub_push_thread, head of the outer loop: topic_subscribe.clone()
PushClone(t) ==
    /\ push_pump[t].pc = "clone"
    /\ push_pump' = [push_pump EXCEPT ![t].pc = "iter",
                                      ![t].topic_sub = CloneTopicSubscribe]
    /\ UNCHANGED <<topic_subscribe, topic_push_thread, push_stop, topic_log,
                   topic_offset, session_info, response_queue, subscribed_at>>
    /\ UNCHANGED <<leaderVars, ledgerVars, buildVars, keepVars, memberVars, auxVars>>

\* topic_sub_push_thread, one entry (topic_name, sub_list) of the clone: an
\* empty list is skipped; else the pump's own topic_id is read for group
\* system_sub_<topic_id>; an empty result is skipped; else the offset of the
\* last record is committed.
PushReadCommit(t) ==
    /\ push_pump[t].pc = "iter"
    /\ LET pp == push_pump[t]
           lo == topic_offset[t] + 1
           hi == Min(Len(topic_log[t]), topic_offset[t] + record_num)
       IN IF pp.topic_sub = <<>>
          THEN /\ push_pump' = [push_pump EXCEPT ![t].pc = "clone"]
               /\ UNCHANGED topic_offset
          ELSE IF Head(pp.topic_sub).sub_list = {} \/ lo > hi
          THEN /\ push_pump' = [push_pump EXCEPT ![t].topic_sub = Tail(@)]
               /\ UNCHANGED topic_offset
          ELSE /\ topic_offset' = [topic_offset EXCEPT ![t] = hi]
               /\ push_pump' = [push_pump EXCEPT ![t].pc = "push", ![t].lo = lo,
                                                 ![t].hi = hi]
    /\ UNCHANGED <<topic_subscribe, topic_push_thread, push_stop, topic_log,
                   session_info, response_queue, subscribed_at>>
    /\ UNCHANGED <<leaderVars, ledgerVars, buildVars, keepVars, memberVars, auxVars>>

\* topic_sub_push_thread, "Push data to subscribers": the batch is sent to
\* the subscribers of the entry, with the entry's key as the topic.
PushSend(t) ==
    /\ push_pump[t].pc = "push"
    /\ LET pp == push_pump[t]
           entry == Head(pp.topic_sub)
       IN /\ response_queue' = response_queue \cup
                PushPackets(t, entry.topic_name, entry.sub_list, pp.lo, pp.hi)
          /\ push_pump' = [push_pump EXCEPT ![t].pc = "iter", ![t].topic_sub = Tail(@),
                                            ![t].lo = 0, ![t].hi = 0]
    /\ UNCHANGED <<topic_subscribe, topic_push_thread, push_stop, topic_log,
                   topic_offset, session_info, subscribed_at>>
    /\ UNCHANGED <<leaderVars, ledgerVars, buildVars, keepVars, memberVars, auxVars>>

\* ------------------------------------------- construction of one PUBLISH
Unbuilt == [by |-> "none"]

\* build_publish applied to the inputs (shared-leader pump).
BuildPublish ==
    /\ b_publish = Unbuilt
    /\ b_publish' = [by |-> "build_publish",
                     publish |-> build_publish(cluster_max_qos, b_subscribe,
                                               TopicName, b_msg)]
    /\ UNCHANGED <<b_subscribe, b_msg>>
    /\ UNCHANGED <<leaderVars, ledgerVars, pushVars, keepVars, memberVars, auxVars>>

\* The Publish literal of topic_sub_push_thread applied to the inputs.
BuildPushPublish ==
    /\ b_publish = Unbuilt
    /\ b_publish' = [by |-> "topic_sub_push_thread",
                     publish |-> push_publish(
                         PushSubscriber(b_subscribe.client_id, b_subscribe.qos),
                         TopicName, b_msg)]
    /\ UNCHANGED <<b_subscribe, b_msg>>
    /\ UNCHANGED <<leaderVars, ledgerVars, pushVars, keepVars, memberVars, auxVars>>

\* ------------------------------------------------------ keep-alive sweeper
\* The connections of the heartbeat manager and their protocols.
KeepConns == {1, 2, 3}
KeepProtocol(c) == IF c = 1 THEN "MQTT4" ELSE "MQTT5"
\* The keep-alive seconds the client of a connection declared.
KeepLive(c) == IF c = 1 THEN 1 ELSE 3

Shards == 0 .. (ShardNum - 1)
Sweeps == 1 .. MaxSweeps

\* The shard of the heartbeat manager that holds a connection.
calc_shard(c) == c % ShardNum

NoLiveTime == [present |-> FALSE, protobol |-> "", keep_live |-> 0, heartbeat |-> 0]
ConnectionLiveTime(p, k, h) ==
    [present |-> TRUE, protobol |-> p, keep_live |-> k, heartbeat |-> h]

\* heartbeat_data.remove(&i): the entries of shard i of a snapshot.
ShardData(snap, i) ==
    [c \in KeepConns |-> IF calc_shard(c) = i THEN snap[c] ELSE NoLiveTime]

ShardConns(data) == {c \in KeepConns : data[c].present}

NoSnapshot == [c \in KeepConns |-> NoLiveTime]

\* let max_timeout = (time.keep_live * 2) as u64
max_timeout(time) == time.keep_live * 2

\* Variant of timed_out: the threshold itself counts as timed out.
timed_out_AtThreshold(t, time) == (t - time.heartbeat) >= max_timeout(time)

\* (now_second() - time.heartbeat) > max_timeout
timed_out(t, time) == (t - time.heartbeat) > max_timeout(time)

\* Disconnect { reason_code: AdministrativeAction }
Disconnect == [reason_code |-> "AdministrativeAction"]
\* Some(DisconnectProperties { user_properties: [("heartbeat_close", "true")] })
HeartbeatCloseProperties ==
    [some |-> TRUE, user_properties |-> {<<"heartbeat_close", "true">>}]
NoProperties == [some |-> FALSE, user_properties |-> {}]

RequestPackage(c, disconnect, properties) ==
    [connection_id |-> c, packet |-> "Disconnect", disconnect |-> disconnect,
     properties |-> properties]

NoTask == [pc |-> "none", data |-> NoSnapshot, todo |-> {}]

KeepIdle == [pc |-> "head", sweep |-> 0, snap |-> NoSnapshot, slept_from |-> 0]

\* A value is sent on the sweeper's stop channel.
KeepSendStop(flag) ==
    /\ ka_stop.sent < MaxStopSend
    /\ ka_stop' = [q |-> Append(ka_stop.q, flag), sent |-> ka_stop.sent + 1,
                   trues |-> ka_stop.trues + (IF flag THEN 1 ELSE 0)]
    /\ UNCHANGED <<now, heartbeat_data, beats, ka, shard_task, permits,
                   request_queue4, request_queue5, scan_log>>
    /\ UNCHANGED <<leaderVars, ledgerVars, pushVars, buildVars, memberVars, auxVars>>

\* The heartbeat manager records a packet of the connection: heartbeat = now.
ReportHeartbeat(c) ==
    /\ beats < MaxBeats
    /\ heartbeat_data[c].present
    /\ beats' = beats + 1
    /\ heartbeat_data' = [heartbeat_data EXCEPT ![c].heartbeat = now]
    /\ UNCHANGED <<now, ka, ka_stop, shard_task, permits, request_queue4,
                   request_queue5, scan_log>>
    /\ UNCHANGED <<leaderVars, ledgerVars, pushVars, buildVars, memberVars, auxVars>>

\* Variant of KeepLoopHead: any value received on the stop channel breaks
\* the loop.
KeepLoopHead_AnyFlag ==
    /\ ka.pc = "head"
    /\ ka_stop.q # <<>>
    /\ ka_stop' = [ka_stop EXCEPT !.q = Tail(@)]
    /\ ka' = [ka EXCEPT !.pc = "exit"]
    /\ UNCHANGED <<now, heartbeat_data, beats, shard_task, permits, request_queue4,
                   request_queue5, scan_log>>
    /\ UNCHANGED <<leaderVars, ledgerVars, pushVars, buildVars, memberVars, auxVars>>

\* start_heartbeat_check, head of the loop: stop_send.try_recv(); Ok(true)
\* breaks; otherwise the heartbeat table is cloned and the task sleeps.
KeepLoopHead ==
    /\ ka.pc = "head"
    /\ LET flag == IF ka_stop.q = <<>> THEN FALSE ELSE Head(ka_stop.q)
       IN /\ ka_stop' = [ka_stop EXCEPT !.q = IF @ = <<>> THEN @ ELSE Tail(@)]
          /\ IF flag
             THEN ka' = [ka EXCEPT !.pc = "exit"]
             ELSE /\ ka.sweep < MaxSweeps
                  /\ ka' = [pc |-> "sleep", sweep |-> ka.sweep + 1,
                            snap |-> heartbeat_data, slept_from |-> now]
    /\ UNCHANGED <<now, heartbeat_data, beats, shard_task, permits, request_queue4,
                   request_queue5, scan_log>>
    /\ UNCHANGED <<leaderVars, ledgerVars, pushVars, buildVars, memberVars, auxVars>>

\* After sleep(5 s), which returned d seconds after the snapshot: a
\* semaphore of shard_num permits is created and one task is spawned per
\* shard with the shard's entries of the snapshot.
KeepSpawn(d) ==
    /\ ka.pc = "sleep"
    /\ d >= SweepSleep
    /\ now' = ka.slept_from + d
    /\ permits' = [permits EXCEPT ![ka.sweep] = ShardNum]
    /\ shard_task' =
         [k \in Sweeps \X Shards |->
             IF k[1] = ka.sweep
             THEN [pc |-> "spawned", data |-> ShardData(ka.snap, k[2]),
                   todo |-> ShardConns(ShardData(ka.snap, k[2]))]
             ELSE shard_task[k]]
    /\ ka' = [ka EXCEPT !.pc = "wait", !.snap = NoSnapshot]
    /\ UNCHANGED <<heartbeat_data, beats, ka_stop, request_queue4, request_queue5,
                   scan_log>>
    /\ UNCHANGED <<leaderVars, ledgerVars, pushVars, buildVars, memberVars, auxVars>>

\* The wait loop: semaphore.available_permits() == shard_num breaks it and
\* the outer loop starts over.
KeepWait ==
    /\ ka.pc = "wait"
    /\ permits[ka.sweep] = ShardNum
    /\ ka' = [ka EXCEPT !.pc = "head"]
    /\ UNCHANGED <<now, heartbeat_data, beats, ka_stop, shard_task, permits,
                   request_queue4, request_queue5, scan_log>>
    /\ UNCHANGED <<leaderVars, ledgerVars, pushVars, buildVars, memberVars, auxVars>>

\* Shard task: sp.acquire().await returns a permit.
TaskAcquire(s, i) ==
    /\ shard_task[<<s, i>>].pc = "spawned"
    /\ permits[s] > 0
    /\ permits' = [permits EXCEPT ![s] = @ - 1]
    /\ shard_task' = [shard_task EXCEPT ![<<s, i>>].pc = "held"]
    /\ UNCHANGED <<now, heartbeat_data, beats, ka, ka_stop, request_queue4,
                   request_queue5, scan_log>>
    /\ UNCHANGED <<leaderVars, ledgerVars, pushVars, buildVars, memberVars, auxVars>>

\* Shard task: the match on sp.acquire().await ends; the permit, a temporary
\* of the match, is dropped.  The scan of the shard comes after it.
TaskRelease(s, i) ==
    /\ shard_task[<<s, i>>].pc = "held"
    /\ permits' = [permits EXCEPT ![s] = @ + 1]
    /\ shard_task' = [shard_task EXCEPT ![<<s, i>>].pc =
                         IF shard_task[<<s, i>>].todo = {} THEN "done" ELSE "scan"]
    /\ UNCHANGED <<now, heartbeat_data, beats, ka, ka_stop, request_queue4,
                   request_queue5, scan_log>>
    /\ UNCHANGED <<leaderVars, ledgerVars, pushVars, buildVars, memberVars, auxVars>>

\* Variant of TaskScan: a send that returned Err ends the loop over the
\* shard's entries.
TaskScan_StopOnError(s, i, c, send_ok) ==
    /\ shard_task[<<s, i>>].pc = "scan"
    /\ c \in shard_task[<<s, i>>].todo
    /\ LET time == shard_task[<<s, i>>].data[c]
           out == timed_out(now, time)
           req4 == RequestPackage(c, Disconnect, NoProperties)
           req5 == RequestPackage(c, Disconnect, HeartbeatCloseProperties)
       IN /\ (~out => send_ok)
          /\ request_queue4' = IF out /\ send_ok /\ time.protobol = "MQTT4"
                               THEN Append(request_queue4, req4)
                               ELSE request_queue4
          /\ request_queue5' = IF out /\ send_ok /\ time.protobol = "MQTT5"
                               THEN Append(request_queue5, req5)
                               ELSE request_queue5
          /\ scan_log' = scan_log \cup
               {[sweep |-> s, connection_id |-> c, now |-> now,
                 heartbeat |-> time.heartbeat, keep_live |-> time.keep_live,
                 disconnect |-> out, send_ok |-> send_ok]}
    /\ shard_task' = [shard_task EXCEPT
                        ![<<s, i>>].todo = IF send_ok THEN @ \ {c} ELSE {},
                        ![<<s, i>>].data[c] = NoLiveTime,
                        ![<<s, i>>].pc = IF shard_task[<<s, i>>].todo = {c} \/ ~send_ok
                                         THEN "done" ELSE "scan"]
    /\ UNCHANGED <<now, heartbeat_data, beats, ka, ka_stop, permits>>
    /\ UNCHANGED <<leaderVars, ledgerVars, pushVars, buildVars, memberVars, auxVars>>

\* Shard task: one pass of the loop over the shard's entries, which the loop
\* consumes.  A connection
\* past max_timeout gets a Disconnect on the request queue of its protocol;
\* send_ok = FALSE: the send returned Err, which is logged.
TaskScan(s, i, c, send_ok) ==
    /\ shard_task[<<s, i>>].pc = "scan"
    /\ c \in shard_task[<<s, i>>].todo
    /\ LET time == shard_task[<<s, i>>].data[c]
           out == timed_out(now, time)
           req4 == RequestPackage(c, Disconnect, NoProperties)
           req5 == RequestPackage(c, Disconnect, HeartbeatCloseProperties)
       IN /\ (~out => send_ok)
          /\ request_queue4' = IF out /\ send_ok /\ time.protobol = "MQTT4"
                               THEN Append(request_queue4, req4)
                               ELSE request_queue4
          /\ request_queue5' = IF out /\ send_ok /\ time.protobol = "MQTT5"
                               THEN Append(request_queue5, req5)
                               ELSE request_queue5
          /\ scan_log' = scan_log \cup
               {[sweep |-> s, connection_id |-> c, now |-> now,
                 heartbeat |-> time.heartbeat, keep_live |-> time.keep_live,
                 disconnect |-> out, send_ok |-> send_ok]}
    /\ shard_task' = [shard_task EXCEPT
                        ![<<s, i>>].todo = @ \ {c},
                        ![<<s, i>>].data[c] = NoLiveTime,
                        ![<<s, i>>].pc = IF shard_task[<<s, i>>].todo = {c}
                                         THEN "done" ELSE "scan"]
    /\ UNCHANGED <<now, heartbeat_data, beats, ka, ka_stop, permits>>
    /\ UNCHANGED <<leaderVars, ledgerVars, pushVars, buildVars, memberVars, auxVars>>

\* ------------------------------------------------ plaintext authentication
\* The usernames of the logins; the user table has entries for some of them.
LoginNames == {"alice", "bob", "carol"}
Passwords == {"pw1", "pw2"}

NoUser == [present |-> FALSE, username |-> "", password |-> "", is_superuser |-> FALSE]
\* metadata::user::User
User(u, pw, su) ==
    [present |-> TRUE, username |-> u, password |-> pw, is_superuser |-> su]
\* protocol::mqtt::Login
Login(u, pw) == [username |-> u, password |-> pw]

\* Result<bool, RobustMQError>
Unapplied == [applied |-> FALSE]
Ok(v) == [applied |-> TRUE, ok |-> TRUE, value |-> v]
Err(e) == [applied |-> TRUE, ok |-> FALSE, error |-> e]

\* Variant of apply: a username without an entry is an error.
apply_UnknownIsError(table, lg) ==
    IF table[lg.username].present
    THEN Ok(table[lg.username].password = lg.password)
    ELSE Err("UserDoesNotExist")

\* Plaintext::apply
apply(table, lg) ==
    IF table[lg.username].present
    THEN Ok(table[lg.username].password = lg.password)
    ELSE Ok(FALSE)

\* A CONNECT with login lg is authenticated: Plaintext::new(lg, user_info).apply()
Authenticate(lg) ==
    /\ login' = lg
    /\ auth_result' = apply(user_info, lg)
    /\ UNCHANGED <<user_info, storeVars, calc, comp_release>>
    /\ UNCHANGED <<leaderVars, ledgerVars, pushVars, buildVars, keepVars, memberVars>>

\* ------------------------------------------------------- MQTT user store
\* Names are sequences of characters; a key is the sequence of its parts.
ClusterNames == {<<"a">>, <<"a", "b">>}
StoreUsernames == {<<"u">>, <<"u", "v">>}

\* metadata_struct::mqtt::user::MQTTUser
MQTTUser(u, pw, su) ==
    [present |-> TRUE, username |-> u, password |-> pw, is_superuser |-> su]
MQTTUsers(u) == {MQTTUser(u, pw, su) : pw \in Passwords, su \in BOOLEAN}

\* storage::keys: /cluster/<name>/mqtt/user/<username>
storage_key_mqtt_user(cluster_name, user_name) ==
    <<"/cluster/">> \o cluster_name \o <<"/mqtt/user/">> \o user_name
\* storage::keys: the prefix of the keys of a cluster's users
storage_key_mqtt_user_cluster_prefix(cluster_name) ==
    <<"/cluster/">> \o cluster_name \o <<"/mqtt/user/">>

starts_with(key, prefix) ==
    Len(prefix) <= Len(key) /\ SubSeq(key, 1, Len(prefix)) = prefix

\* serde_json::to_vec::<MQTTUser>: the object's fields, in declaration order
to_vec(user) ==
    <<"username", user.username, "password", user.password,
      "is_superuser", user.is_superuser>>
\* serde_json::from_slice::<MQTTUser>
from_slice(data) ==
    [present |-> TRUE, username |-> data[2], password |-> data[4],
     is_superuser |-> data[6]]

\* storage::engine: the column family as a set of [key, data], one per key
engine_save_by_cluster(db, key, value) ==
    {r \in db : r.key # key} \cup {[key |-> key, data |-> to_vec(value)]}
engine_delete_by_cluster(db, key) == {r \in db : r.key # key}
engine_get_by_cluster(db, key) == {r \in db : r.key = key}
engine_prefix_list_by_cluster(db, prefix_key) ==
    {r \in db : starts_with(r.key, prefix_key)}

\* Variant of list: the prefix is the cluster name without what follows it.
list_OpenPrefix(cluster_name) ==
    {from_slice(raw.data) :
        raw \in engine_prefix_list_by_cluster(rocksdb, <<"/cluster/">> \o cluster_name)}

\* MQTTUserStorage::list
list(cluster_name) ==
    LET prefix_key == storage_key_mqtt_user_cluster_prefix(cluster_name)
    IN {from_slice(raw.data) : raw \in engine_prefix_list_by_cluster(rocksdb, prefix_key)}

\* MQTTUserStorage::get: Ok(Some(user)) or Ok(None) (NoUser)
get(cluster_name, username) ==
    LET key == storage_key_mqtt_user(cluster_name, username)
        found == engine_get_by_cluster(rocksdb, key)
    IN IF found = {} THEN NoUser
       ELSE from_slice((CHOOSE r \in found : TRUE).data)

\* MQTTUserStorage::save
save(cluster_name, user_name, user) ==
    /\ rocksdb' = engine_save_by_cluster(
                     rocksdb, storage_key_mqtt_user(cluster_name, user_name), user)
    /\ user_written' = [user_written EXCEPT ![<<cluster_name, user_name>>] = user]
    /\ UNCHANGED <<authVars, calc, comp_release>>
    /\ UNCHANGED <<leaderVars, ledgerVars, pushVars, buildVars, keepVars, memberVars>>

\* MQTTUserStorage::delete
delete(cluster_name, user_name) ==
    /\ rocksdb' = engine_delete_by_cluster(
                     rocksdb, storage_key_mqtt_user(cluster_name, user_name))
    /\ user_written' = [user_written EXCEPT ![<<cluster_name, user_name>>] = NoUser]
    /\ UNCHANGED <<authVars, calc, comp_release>>
    /\ UNCHANGED <<leaderVars, ledgerVars, pushVars, buildVars, keepVars, memberVars>>

\* ----------------------------------------------- records requested per read
NotCalculated == [sub_len |-> 0, called |-> FALSE, record_num |-> 0]

\* read_message_process: let record_num = calc_record_num(sub_list.len())
CalcRecordNum ==
    /\ ~calc.called
    /\ calc' = [calc EXCEPT !.called = TRUE, !.record_num = calc_record_num(calc.sub_len)]
    /\ UNCHANGED <<authVars, storeVars, comp_release>>
    /\ UNCHANGED <<leaderVars, ledgerVars, pushVars, buildVars, keepVars, memberVars>>

\* ---------------------------------------------------------- specifications
InitAuthIdle ==
    /\ user_info = [u \in LoginNames |-> NoUser]
    /\ login = Login("", "")
    /\ auth_result = Unapplied

InitStoreIdle ==
    /\ rocksdb = {}
    /\ user_written = [k \in ClusterNames \X StoreUsernames |-> NoUser]

InitAuxIdle == InitAuthIdle /\ InitStoreIdle /\ calc = NotCalculated /\ comp_release = NoRelease

\* The keep-alive sweeper before KeepAlive::new.
InitKeepIdle ==
    /\ now = 0
    /\ heartbeat_data = NoSnapshot
    /\ beats = 0
    /\ ka = KeepIdle
    /\ ka_stop = [q |-> <<>>, sent |-> 0, trues |-> 0]
    /\ shard_task = [k \in Sweeps \X Shards |-> NoTask]
    /\ permits = [s \in Sweeps |-> 0]
    /\ request_queue4 = <<>>
    /\ request_queue5 = <<>>
    /\ scan_log = {}

\* The per-topic push subsystem before any subscription.
InitPushIdle ==
    /\ topic_subscribe = [t \in TopicIds |-> NoTopic]
    /\ topic_push_thread = {}
    /\ push_stop = [t \in TopicIds |-> FALSE]
    /\ push_pump = [t \in TopicIds |-> IdlePushPump]
    /\ topic_log = [t \in TopicIds |-> <<>>]
    /\ topic_offset = [t \in TopicIds |-> 0]
    /\ response_queue = {}
    /\ subscribed_at = [t \in TopicIds |-> [c \in Clients |-> -1]]

InitBuildIdle ==
    /\ b_subscribe = Subscriber("c1", 0, FALSE)
    /\ b_msg = CHOOSE m \in Messages : m.client_id = "pub"
    /\ b_publish = Unbuilt

InitLeaderPumps(cap, qs, pumps) ==
    /\ cluster_max_qos \in qs
    /\ pump_cap = pumps
    /\ share_leader_subscribe = NoGroup
    /\ share_leader_push_thread = NoPump
    /\ tick = TickIdle
    /\ pump = [p \in PumpIds |-> IdlePump]
    /\ stop_chan = [p \in PumpIds |-> 0]
    /\ next_pump = 1
    /\ log = <<>>
    /\ log_cap = cap
    /\ group_offset = 0
    /\ pkid_counter = [c \in Clients |-> 0]
    /\ pkid_info = [c \in Clients |-> {}]
    /\ ack_packet = [c \in Clients |-> {}]
    /\ pubrel_sent = {}
    /\ commit_log = <<>>
    /\ last_commit = NoCommit
    /\ dropped = {}
    /\ nolocal_dropped = {}
    /\ rr = RRStart
    /\ retain_sent = [c \in Clients |-> "none"]
    /\ stale = [p \in PumpIds |-> StaleIdle]

InitLeader(cap, qs) == InitLeaderPumps(cap, qs, MaxPumps)

TickStep == TickBegin \/ TickStop \/ TickSpawn \/ TickGc

\* ---- Spec: the lifecycle of the pumps of one key.  The group's members
\* subscribe at QoS 0 and the records come from an outside publisher.
LifeClients == {"c1"}
LifeMsgs == {m \in Messages : m.client_id = "pub"}

Init ==
    /\ InitLeader(MaxLog, {2})
    /\ InitAuxIdle /\ InitPushIdle /\ InitKeepIdle /\ session_info = [c \in Clients |-> NoConnection]
    /\ InitBuildIdle

LifePumpStep ==
    \E p \in PumpIds :
        \/ PumpRead(p)
        \/ PumpPick(p, TRUE)
        \/ PumpCommit0(p)
        \/ PumpStop(p)
        \/ PumpLagged(p)

Next ==
    \/ \E m \in LifeMsgs : AppendRecord(m)
    \/ \E c \in LifeClients : SubscribeShare(c, 0, FALSE)
    \/ \E c \in LifeClients : UnsubscribeShare(c)
    \/ TickStep
    \/ LifePumpStep

Spec == Init /\ [][Next]_vars

\* ---- SpecShare: one running pump of a group, every QoS, nolocal members,
\* every member list of up to two members.  It starts in the state the lifecycle tick
\* leaves after spawning the pump of a group.
\* nolocal is enumerated for the members that also publish: build_publish
\* reads it only together with client_id = msg.client_id.
Filters(c) ==
    {f \in [qos : QoSLevels, nolocal : BOOLEAN] : f.nolocal => c \in Publishers}

Subscribers ==
    UNION {{Subscriber(c, f.qos, f.nolocal) : f \in Filters(c)} : c \in Clients}

SubLists ==
    {<<>>} \cup {<<s>> : s \in Subscribers} \cup
    {l \in {<<s, t>> : s \in Subscribers, t \in Subscribers} :
        l[1].client_id # l[2].client_id}

InitGroup(cap, lists) ==
    /\ cluster_max_qos = 2
    /\ pump_cap = MaxPumps
    /\ \E sl \in lists :
         share_leader_subscribe = [present |-> TRUE, sub_list |-> sl]
    /\ share_leader_push_thread = 1
    /\ tick = TickIdle
    /\ pump = [p \in PumpIds |-> IF p = 1 THEN [IdlePump EXCEPT !.pc = "start"]
                                          ELSE IdlePump]
    /\ stop_chan = [p \in PumpIds |-> 0]
    /\ next_pump = 2
    /\ log = <<>>
    /\ log_cap = cap
    /\ group_offset = 0
    /\ pkid_counter = [c \in Clients |-> 0]
    /\ pkid_info = [c \in Clients |-> {}]
    /\ ack_packet = [c \in Clients |-> {}]
    /\ pubrel_sent = {}
    /\ commit_log = <<>>
    /\ last_commit = NoCommit
    /\ dropped = {}
    /\ nolocal_dropped = {}
    /\ rr = RRStart
    /\ retain_sent = [c \in Clients |->
           IF c \in SubClients(share_leader_subscribe.sub_list) THEN "sent" ELSE "none"]
    /\ stale = [p \in PumpIds |-> StaleIdle]

SharePumpStep ==
    \/ PumpRead(1)
    \/ \E ok \in BOOLEAN : PumpPick(1, ok)
    \/ PumpCommit0(1)
    \/ \E d \in AckInputs : PumpAck1(1, d)
    \/ \E d \in AckInputs : PumpRec2(1, d)
    \/ PumpRel2(1)
    \/ \E d \in AckInputs : PumpComp2(1, d)

InitShare ==
    /\ InitGroup(MaxLog, SubLists)
    /\ InitAuxIdle /\ InitPushIdle /\ InitKeepIdle /\ session_info = [c \in Clients |-> NoConnection]
    /\ InitBuildIdle

NextShare ==
    \/ \E m \in Messages : AppendRecord(m)
    \/ SharePumpStep

SpecShare == InitShare /\ [][NextShare]_vars

\* ---- SpecShareFair: SpecShare for the groups that have a member, with its
\* scheduling: the pump is a spawned task that runs whenever it can take a
\* step (a wait for an ack ends with the ack or with its timeout).  Nothing
\* is assumed about the publishers or about what the members answer.
InitShareFair ==
    /\ InitGroup(MaxLog, SubLists \ {<<>>})
    /\ InitAuxIdle /\ InitPushIdle /\ InitKeepIdle /\ session_info = [c \in Clients |-> NoConnection]
    /\ InitBuildIdle

SpecShareFair == InitShareFair /\ [][NextShare]_vars /\ WF_vars(SharePumpStep)

\* ---- SpecRR: one running pump of a group whose membership is fixed, over
\* a longer log.
\* One member at any QoS, or two members at the same QoS 0 or 1.
RRLists ==
    {l \in SubLists \ {<<>>} :
        \A i, j \in DOMAIN l : l[i].qos = l[j].qos /\ (l[i].qos = 2 => Len(l) = 1)}

InitRR ==
    /\ InitGroup(MaxLogRR, RRLists)
    /\ InitAuxIdle /\ InitPushIdle /\ InitKeepIdle /\ session_info = [c \in Clients |-> NoConnection]
    /\ InitBuildIdle

NextRR ==
    \/ \E m \in Messages : AppendRecord(m)
    \/ SharePumpStep

SpecRR == InitRR /\ [][NextRR]_vars

\* ---- SpecStop: the lifecycle tick together with the pumps of a group whose
\* member c1 subscribes at QoS 1 or 2 and leaves.  It starts in the state
\* the tick leaves after spawning the first pump.
StopQoS == {1, 2}
StopLists == {<<Subscriber("c1", q, FALSE)>> : q \in StopQoS}

InitStop ==
    /\ InitGroup(MaxStopLog, StopLists)
    /\ InitAuxIdle /\ InitPushIdle /\ InitKeepIdle /\ session_info = [c \in Clients |-> NoConnection]
    /\ InitBuildIdle

StopPumpStep ==
    \E p \in PumpIds :
        \/ PumpRead(p)
        \/ \E ok \in BOOLEAN : PumpPick(p, ok)
        \/ \E d \in AckInputs : PumpAck1(p, d)
        \/ \E d \in AckInputs : PumpRec2(p, d)
        \/ PumpRel2(p)
        \/ \E d \in AckInputs : PumpComp2(p, d)
        \/ PumpStop(p)
        \/ PumpLagged(p)

NextStop ==
    \/ \E m \in LifeMsgs : AppendRecord(m)
    \/ UnsubscribeShare("c1")
    \/ TickStep
    \/ StopPumpStep

SpecStop == InitStop /\ [][NextStop]_vars


\* ---- SpecPush: the push server and the per-topic pumps of two topics.
PushSubQoS == {1}
PushMsgQoS == {0}
\* The topics a client subscribes to.
PushTopicsOf(c) == IF c = "c1" THEN {"t/a"} ELSE {"t/b"}

InitPush ==
    /\ InitLeader(0, {2})
    /\ InitAuxIdle /\ InitPushIdle /\ InitKeepIdle
    /\ session_info \in [Clients -> {NoConnection, 1, 2}]
    /\ session_info["c1"] = ConnectionId("c1")
    /\ session_info["c2"] \in {NoConnection, ConnectionId("c2")}
    /\ InitBuildIdle

NextPush ==
    \/ \E c \in Clients, q \in PushSubQoS :
          \E t \in PushTopicsOf(c) : SubscribeExclusive(c, t, q)
    \/ \E c \in Clients : \E t \in PushTopicsOf(c) : UnsubscribeExclusive(c, t)
    \/ \E t \in TopicIds, q \in PushMsgQoS : AppendTopicMessage(t, q)
    \/ PushServerStart
    \/ \E t \in TopicIds : PushTryRecv(t)
    \/ \E t \in TopicIds : PushClone(t)
    \/ \E t \in TopicIds : PushReadCommit(t)
    \/ \E t \in TopicIds : PushSend(t)

SpecPush == InitPush /\ [][NextPush]_vars

\* ---- SpecPushFair: SpecPush with its scheduling.  PushServer::start is a
\* loop that sleeps one second per pass and every per-topic pump is a
\* spawned task: weak fairness of the server's pass and of each pump's steps.
PushPumpStep(t) ==
    PushTryRecv(t) \/ PushClone(t) \/ PushReadCommit(t) \/ PushSend(t)

SpecPushFair ==
    /\ InitPush
    /\ [][NextPush]_vars
    /\ WF_vars(PushServerStart)
    /\ \A t \in TopicIds : WF_vars(PushPumpStep(t))

\* ---- SpecPushLife: the push server and the pump of one topic, t/a, to
\* which either client subscribes, one after the other or together, with the
\* scheduling of SpecPushFair.
NextPushLife ==
    \/ \E c \in Clients, q \in PushSubQoS : SubscribeExclusive(c, "t/a", q)
    \/ \E c \in Clients : UnsubscribeExclusive(c, "t/a")
    \/ \E q \in PushMsgQoS : AppendTopicMessage("t/a", q)
    \/ PushServerStart
    \/ PushPumpStep("t/a")

SpecPushLife ==
    /\ InitPush
    /\ [][NextPushLife]_vars
    /\ WF_vars(PushServerStart)
    /\ WF_vars(PushPumpStep("t/a"))

\* ---- SpecLife: the lifecycle tick and the pumps of one key whose topic has
\* no records; member c1 joins and leaves.  SubscribeShareLeader::start is a
\* loop that sleeps one second per pass and every pump is a spawned task whose
\* select! polls its stop receiver: weak fairness of the tick's steps and of
\* each pump's stop branch.
InitLife ==
    /\ InitLeaderPumps(0, {2}, MaxGcPumps)
    /\ InitAuxIdle /\ InitPushIdle /\ InitKeepIdle /\ session_info = [c \in Clients |-> NoConnection]
    /\ InitBuildIdle

LifeStopStep(p) == PumpStop(p) \/ PumpLagged(p)

NextLife ==
    \/ \E c \in LifeClients : SubscribeShare(c, 0, FALSE)
    \/ \E c \in LifeClients : UnsubscribeShare(c)
    \/ TickStep
    \/ \E p \in PumpIds : PumpRead(p) \/ LifeStopStep(p)

SpecLife ==
    /\ InitLife
    /\ [][NextLife]_vars
    /\ WF_vars(TickStep)
    /\ \A p \in PumpIds : WF_vars(LifeStopStep(p))

\* The sweeper at its start, with the connections conns in the heartbeat
\* table, each heard of at second 0.
InitSweeper(conns) ==
    /\ now = 0
    /\ heartbeat_data = [c \in KeepConns |->
                            IF c \in conns
                            THEN ConnectionLiveTime(KeepProtocol(c), KeepLive(c), 0)
                            ELSE NoLiveTime]
    /\ beats = 0
    /\ ka = KeepIdle
    /\ ka_stop = [q |-> <<>>, sent |-> 0, trues |-> 0]
    /\ shard_task = [k \in Sweeps \X Shards |-> NoTask]
    /\ permits = [s \in Sweeps |-> 0]
    /\ request_queue4 = <<>>
    /\ request_queue5 = <<>>
    /\ scan_log = {}

\* ---- SpecKeep: the keep-alive sweeper over the connections of two shards,
\* with the clock and the heartbeats.
InitKeep ==
    /\ InitLeader(0, {2})
    /\ InitAuxIdle /\ InitPushIdle /\ session_info = [c \in Clients |-> NoConnection]
    /\ InitBuildIdle
    /\ now = 0
    /\ InitSweeper({1, 2})

\* The seconds a sleep(5 s) can take.
SleepTimes == SweepSleep .. (SweepSleep + MaxOversleep)

KeepSweeperStep == KeepLoopHead \/ (\E d \in SleepTimes : KeepSpawn(d)) \/ KeepWait

KeepTaskStep ==
    \E s \in Sweeps, i \in Shards :
        \/ TaskAcquire(s, i)
        \/ TaskRelease(s, i)
        \/ \E c \in KeepConns, ok \in BOOLEAN : TaskScan(s, i, c, ok)

NextKeep ==
    \/ \E c \in KeepConns : ReportHeartbeat(c)
    \/ KeepSweeperStep
    \/ KeepTaskStep

SpecKeep == InitKeep /\ [][NextKeep]_vars

\* ---- SpecKeepShard: the sweeper over an MQTT4 and an MQTT5 connection that
\* the heartbeat manager holds in the same shard; no heartbeat arrives.
InitKeepShard ==
    /\ InitLeader(0, {2})
    /\ InitAuxIdle /\ InitPushIdle /\ session_info = [c \in Clients |-> NoConnection]
    /\ InitBuildIdle
    /\ InitSweeper({1, 3})

NextKeepShard == KeepSweeperStep \/ KeepTaskStep

SpecKeepShard == InitKeepShard /\ [][NextKeepShard]_vars

\* ---- SpecKeepStop: the sweeper and the senders of its stop channel.  The
\* sweeper is a spawned task and so is every shard task: each is scheduled
\* again and again (weak fairness of their steps).
NextKeepStop ==
    \/ \E flag \in BOOLEAN : KeepSendStop(flag)
    \/ KeepSweeperStep
    \/ KeepTaskStep

SpecKeepStop ==
    /\ InitKeep
    /\ [][NextKeepStop]_vars
    /\ WF_vars(KeepSweeperStep)
    /\ WF_vars(KeepTaskStep)

\* ---- SpecBuild: one PUBLISH built from every combination of the inputs.
BuildSubscribers ==
    [client_id : Clients, qos : QoSLevels, nolocal : BOOLEAN, preserve_retain : BOOLEAN]
BuildMessages ==
    [qos : QoSLevels, retain : BOOLEAN, client_id : Publishers, payload : {"p", "q"},
     valid : {TRUE}]

InitBuild ==
    /\ InitLeader(0, QoSLevels)
    /\ InitAuxIdle /\ InitPushIdle /\ InitKeepIdle /\ session_info = [c \in Clients |-> NoConnection]
    /\ b_subscribe \in BuildSubscribers
    /\ b_msg \in BuildMessages
    /\ b_publish = Unbuilt

NextBuild == BuildPublish \/ BuildPushPublish

SpecBuild == InitBuild /\ [][NextBuild]_vars

\* ---- SpecAuth: Plaintext::apply for every login against every user table
\* of two known usernames; "carol" is in no table.
UserTables ==
    {t \in [LoginNames -> {NoUser} \cup
                {User(u, pw, su) : u \in LoginNames, pw \in Passwords, su \in BOOLEAN}] :
        /\ \A u \in LoginNames : t[u].present => t[u].username = u
        /\ ~t["carol"].present}

InitAuth ==
    /\ InitLeader(0, {2})
    /\ InitStoreIdle /\ calc = NotCalculated /\ comp_release = NoRelease
    /\ InitPushIdle /\ InitKeepIdle /\ session_info = [c \in Clients |-> NoConnection]
    /\ InitBuildIdle
    /\ user_info \in UserTables
    /\ login = Login("", "")
    /\ auth_result = Unapplied

NextAuth == \E u \in LoginNames, pw \in Passwords : Authenticate(Login(u, pw))

SpecAuth == InitAuth /\ [][NextAuth]_vars

\* ---- SpecStore: MQTTUserStorage under every sequence of save and delete
\* for two clusters (the name of one a prefix of the other's) and two
\* usernames (likewise).
InitStore ==
    /\ InitLeader(0, {2})
    /\ InitAuthIdle /\ calc = NotCalculated /\ comp_release = NoRelease
    /\ InitPushIdle /\ InitKeepIdle /\ session_info = [c \in Clients |-> NoConnection]
    /\ InitBuildIdle
    /\ InitStoreIdle

NextStore ==
    \/ \E cl \in ClusterNames, n \in StoreUsernames :
          \E user \in MQTTUsers(n) : save(cl, n, user)
    \/ \E cl \in ClusterNames, n \in StoreUsernames : delete(cl, n)

SpecStore == InitStore /\ [][NextStore]_vars

\* ---- SpecCalc: calc_record_num for every member count up to MaxSubLen.
MaxSubLen == 250

InitCalc ==
    /\ InitLeader(0, {2})
    /\ InitAuthIdle /\ InitStoreIdle /\ comp_release = NoRelease
    /\ InitPushIdle /\ InitKeepIdle /\ session_info = [c \in Clients |-> NoConnection]
    /\ InitBuildIdle
    /\ calc \in {[NotCalculated EXCEPT !.sub_len = n] : n \in 0 .. MaxSubLen}

NextCalc == CalcRecordNum

SpecCalc == InitCalc /\ [][NextCalc]_vars

\* ------------------------------------------------------------------ claims
RunningPumps == {p \in PumpIds : Running(p)}

\* C1: for the group, the sequence of offsets passed to commit_group_offset
\* is strictly increasing.
C1_CommitsStrictlyIncreasing ==
    \A i, j \in 1 .. Len(commit_log) : i < j => commit_log[i] < commit_log[j]

\* C10: at most one pump task runs for the key, and the registered handle,
\* when present, is the stop handle of that running pump.
C10_OnePumpPerKey ==
    /\ Cardinality(RunningPumps) <= 1
    /\ share_leader_push_thread # NoPump => RunningPumps = {share_leader_push_thread}


Range(f) == {f[i] : i \in DOMAIN f}

\* The members of the group, in list order, and the member after c.
Members == share_leader_subscribe.sub_list
EffectiveQoS(sub) == min_qos(cluster_max_qos, sub.qos)

\* C2: the offset of a record dispatched at QoS 1 is committed only after a
\* PUBACK with the assigned pkid was received, that of a record dispatched at
\* QoS 2 only after a PUBREC with the assigned pkid; while a pump waits for
\* that ack the record's offset is not committed.
C2_CommitAfterAck ==
    /\ last_commit.qos = 1 =>
         last_commit.ack.ack_type = "PubAck" /\ last_commit.ack.pkid = last_commit.pkid
    /\ last_commit.qos = 2 =>
         last_commit.ack.ack_type = "PubRec" /\ last_commit.ack.pkid = last_commit.pkid
    /\ \A p \in PumpIds :
         pump[p].pc \in {"ack1", "rec2"} => pump[p].lo \notin Range(commit_log)

\* A QoS 2 record was committed after a QoS 1 record of an earlier attempt.
C2_Witness ==
    /\ last_commit.qos = 2 /\ last_commit.ack.ack_type = "PubRec"
    /\ commit_log = <<1, 2>>
    /\ \E c \in Clients : pkid_counter[c] = 2

C8_DroppedIsCommitted ==
    /\ \A off \in dropped : off <= group_offset
    /\ \A p \in PumpIds :
         pump[p].pc \in {"pick", "commit0", "ack1", "rec2", "rel2", "comp2"} =>
             \A off \in pump[p].lo .. pump[p].hi : off \notin dropped

\* ------------------------------------------------ round robin (SpecRR)
Count(seq, c) == Cardinality({i \in DOMAIN seq : seq[i] = c})

\* The successful deliveries follow the member list cyclically from M1.
Cyclic(seq, members) ==
    \A i \in DOMAIN seq : seq[i] = members[((i - 1) % Len(members)) + 1].client_id

\* In every window of the successful deliveries each member's count differs
\* from floor(n / k) by at most 1.
Balanced(seq, members) ==
    \A a \in DOMAIN seq : \A b \in a .. Len(seq) :
        \A i \in DOMAIN members :
            LET n == b - a + 1
                cnt == Count(SubSeq(seq, a, b), members[i].client_id)
                fl == n \div Len(members)
            IN cnt - fl <= 1 /\ fl - cnt <= 1

\* The offsets of the delivered records are committed, in order; the last
\* QoS 0 delivery may still be ahead of its commit.
DeliveredCommitted ==
    LET n == Len(rr.seq) - (IF pump[1].pc = "commit0" THEN 1 ELSE 0)
    IN commit_log = [i \in 1 .. n |-> i]

RoundRobin ==
    /\ Cyclic(rr.seq, Members)
    /\ Balanced(rr.seq, Members)
    /\ DeliveredCommitted

\* C6 (as stated): with k > 0 members, fixed membership and no member
\* errors, the records are dispatched cyclically in member-list order with
\* the cursor carried across batches, every window of deliveries is balanced
\* within 1 of floor(n / k), and the delivered offsets are committed.
C6_RoundRobin ==
    (rr.live /\ Len(Members) > 0 /\ rr.failed = {}) => RoundRobin

\* C6 (amended): the same, for runs in which moreover no PUBLISH was dropped
\* by the nolocal rule (a nolocal drop uses up the member's turn).
C6_RoundRobinNoDrop ==
    (rr.live /\ Len(Members) > 0 /\ rr.failed = {} /\ nolocal_dropped = {})
        => RoundRobin

\* Three deliveries over two members, across more than one read batch.
C6_Witness ==
    /\ rr.live /\ rr.failed = {} /\ nolocal_dropped = {}
    /\ Len(Members) = 2 /\ Len(rr.seq) = 3
    /\ commit_log = <<1, 2, 3>>
    /\ Len(log) = 3

\* f is a member whose deliveries are at QoS 1 and which has failed every
\* attempt so far, beside a member that has acknowledged every attempt.
FailingMember(f) ==
    /\ rr.live
    /\ Len(Members) = 2
    /\ \E i \in DOMAIN Members :
         Members[i].client_id = f /\ EffectiveQoS(Members[i]) = 1
    /\ rr.failed = {f}
    /\ Count(rr.seq, f) = 0

\* Every record the pump has passed is committed, none is abandoned, and
\* the attempt after a failed attempt at f goes to the other member.
Forfeited(f) ==
    /\ dropped = {}
    /\ LET pr == pump[1]
           passed == IF pr.pc \in {"pick", "commit0", "ack1", "rec2"} THEN pr.lo - 1
                     ELSE IF pr.pc \in {"rel2", "comp2"} THEN pr.lo
                     ELSE IF pr.pc = "read" THEN pr.hi
                     ELSE 0
       IN /\ \A off \in 1 .. passed : off \in Range(commit_log)
          /\ \A i \in DOMAIN pr.tried :
               (i > 1 /\ pr.tried[i - 1].client = f) => pr.tried[i].client # f
          /\ Len(pr.tried) <= 2
    /\ \A i \in DOMAIN rr.seq : rr.seq[i] # f

C8_Witness ==
    \E p \in PumpIds : pump[p].pc = "pick" /\ pump[p].lo \in dropped


\* ------------------------------------------------ per-topic push (SpecPush)
Written(payload) == \E pkt \in response_queue : pkt.packet.payload = payload

\* C3: in the per-topic push pump the group offset is past a record only
\* when the PUBLISH for that record has been written to the response queue.
C3_OffsetAfterPublish ==
    \A t \in TopicIds : \A o \in 1 .. topic_offset[t] :
        Written(topic_log[t][o].payload)

\* C9: every record of a topic's log that the topic's pump has consumed was
\* pushed, under the topic's name, to every connected exclusive subscriber
\* of the topic that subscribed before the record was appended, whatever
\* other topics have subscribers.
C9_EverySubscriberGetsEveryRecord ==
    \A t \in TopicIds :
        push_pump[t].pc \in {"clone", "iter"} =>
            \A o \in 1 .. topic_offset[t] : \A s \in topic_subscribe[t].sub_list :
                (/\ session_info[s.client_id] # NoConnection
                 /\ subscribed_at[t][s.client_id] < o)
                => \E pkt \in response_queue :
                       /\ pkt.connection_id = session_info[s.client_id]
                       /\ pkt.packet.topic = t
                       /\ pkt.packet.payload = topic_log[t][o].payload

\* ---------------------------------------------------- PUBLISH (SpecBuild)
\* C4: the QoS of a built PUBLISH is at most
\* min(cluster_max_qos, subscription qos, message qos).
C4_QosAtMostMin ==
    (b_publish # Unbuilt /\ ~b_publish.publish.none) =>
        b_publish.publish.qos <= Min(cluster_max_qos, Min(b_subscribe.qos, b_msg.qos))


\* ------------------------------------------------ pkid ledger (SpecShare)
\* C11: after a QoS 1 attempt that failed because no PUBACK arrived, the
\* record's offset is not committed by the attempt and the attempt's pkid is
\* in neither the client's pkid ledger nor the ack-waiter table.
C11_TimeoutReleasesPkid ==
    \A p \in PumpIds :
        LET pr == pump[p]
            n == Len(pr.tried)
            c == pr.tried[n].client
        IN (/\ pr.pc = "pick" /\ pr.puback_timeout
            /\ n > 0 /\ pr.tried[n].st = "fail")
           => /\ pr.lo \notin Range(commit_log)
              /\ pkid_counter[c] \notin pkid_info[c]
              /\ pkid_counter[c] \notin ack_packet[c]

\* C12: for every client the pkids in flight are exactly the pkids that have
\* an ack packet (one entry per pkid), after deliveries that succeeded,
\* failed or were cancelled by the stop of their pump.
C12_InFlightIffAckWaiter ==
    \A c \in Clients : pkid_info[c] = ack_packet[c]

C12_Witness ==
    /\ pump[1].pc = "done"
    /\ commit_log = <<1>> /\ last_commit.qos = 1
    /\ pkid_counter["c1"] = 2
    /\ pkid_info["c1"] = {2} /\ ack_packet["c1"] = {2}

\* C13: a PUBREL for a pkid is sent only after the PUBLISH was sent, the
\* matching PUBREC was received and the offset of its record was committed;
\* the commit precedes the PUBREL.
C13_PubRelAfterCommit ==
    /\ \A r \in pubrel_sent : r.offset \in Range(commit_log)
    /\ \A p \in PumpIds :
         pump[p].pc = "rel2" =>
            /\ pump[p].lo \in Range(commit_log)
            /\ last_commit.qos = 2 /\ last_commit.offset = pump[p].lo
            /\ last_commit.ack = [ack_type |-> "PubRec", pkid |-> pump[p].pkid]
            /\ pump[p].tried[Len(pump[p].tried)].st = "ok"
            /\ \A r \in pubrel_sent : r.offset # pump[p].lo

\* Two QoS 2 records, each with its PUBREL sent.
C13_Witness ==
    /\ \E r \in pubrel_sent : r.offset = 1
    /\ \E r \in pubrel_sent : r.offset = 2
    /\ commit_log = <<1, 2>>


\* ------------------------------------------- keep-alive sweeper (SpecKeep)
\* The DISCONNECT packets on the request queues for a connection.
Disconnects(c) ==
    SelectSeq(request_queue4 \o request_queue5, LAMBDA r : r.connection_id = c)

\* now - last_seen > 2 * keep_alive_seconds, for one evaluation of a sweep.
PastThreshold(e) == (e.now - e.heartbeat) > 2 * e.keep_live

\* C14: in each sweep a shard task sends a DISCONNECT for a connection if
\* and only if now - last_seen > 2 * keep_alive (strictly); the request
\* queues hold one DISCONNECT per such send that returned Ok.
C14_DisconnectIffPastThreshold ==
    /\ \A e \in scan_log : e.disconnect <=> PastThreshold(e)
    /\ \A c \in KeepConns :
         Len(Disconnects(c)) =
            Cardinality({e \in scan_log : /\ e.connection_id = c
                                          /\ PastThreshold(e) /\ e.send_ok})

C14_Witness ==
    /\ \E e \in scan_log : /\ e.connection_id = 2 /\ e.sweep = 1
                            /\ e.now - e.heartbeat = 2 * e.keep_live
    /\ \E e \in scan_log : /\ e.connection_id = 2 /\ e.sweep = 2
                            /\ PastThreshold(e)
    /\ Len(Disconnects(2)) = 1

\* C15: every DISCONNECT on the request queues, of MQTT4 and of MQTT5
\* connections, has reason code AdministrativeAction and the user property
\* heartbeat_close = true.
C15_HeartbeatCloseOnEveryDisconnect ==
    \A c \in KeepConns : \A n \in 1 .. Len(Disconnects(c)) :
        /\ Disconnects(c)[n].disconnect.reason_code = "AdministrativeAction"
        /\ <<"heartbeat_close", "true">> \in Disconnects(c)[n].properties.user_properties

\* C16: when the sweeper has begun sweep n + 1 (it took the next snapshot),
\* every shard task of sweep n has finished its scan.
C16_SweepWaitsForShardTasks ==
    \A k \in Sweeps \X Shards : k[1] < ka.sweep => shard_task[k].pc = "done"

\* --------------------------------------- sweeper stop (SpecKeepStop)
TruePending == \E n \in 1 .. Len(ka_stop.q) : ka_stop.q[n]

\* The run's bound on sweeps keeps the sweeper from its next loop head.
KeepBoundReached ==
    /\ ka.pc = "head" /\ ka.sweep = MaxSweeps
    /\ ka_stop.q # <<>> /\ ~Head(ka_stop.q)

\* C17: once true is on the stop channel the sweeper eventually leaves its
\* loop; it leaves only when a true was sent (false does not stop it), and
\* after leaving it starts no sweep.
C17_StopExits ==
    /\ [](TruePending => <>(ka.pc = "exit" \/ KeepBoundReached))
    /\ [](ka.pc = "exit" => ka_stop.trues > 0)
    /\ [][ka.pc = "exit" => ka' = ka]_vars

C17_Witness ==
    /\ ka.pc = "exit" /\ ka.sweep = 1
    /\ ka_stop = [q |-> <<>>, sent |-> 2, trues |-> 1]

\* ------------------------------------------- pump lifecycle (SpecLife)
KeyAbsent == ~share_leader_subscribe.present

\* The run's bound on pump tasks keeps the tick from spawning.
PumpBoundReached ==
    /\ tick.pc = "spawn" /\ share_leader_push_thread = NoPump
    /\ next_pump > pump_cap

\* C18: a pump registered for a key that is absent from
\* share_leader_subscribe is sent stop by the tick and eventually exits
\* (unless the key comes back); a pump that has exited does nothing more.
C18_AbsentKeyPumpExits ==
    /\ \A h \in PumpIds :
         []((KeyAbsent /\ share_leader_push_thread = h)
              => <>(pump[h].pc = "done" \/ ~KeyAbsent \/ PumpBoundReached))
    /\ [][\A p \in PumpIds : pump[p].pc = "done" => pump'[p] = pump[p]]_vars

GroupWithMember ==
    share_leader_subscribe.present /\ Len(share_leader_subscribe.sub_list) >= 1

\* C19: a group that stays present with at least one member and has no
\* registered pump eventually has a registered, running pump, also after an
\* earlier pump of the key was stopped.
C19_GroupGetsPump ==
    /\ [](share_leader_push_thread # NoPump => Running(share_leader_push_thread))
    /\ []((GroupWithMember /\ share_leader_push_thread = NoPump)
            => <>(\/ share_leader_push_thread # NoPump
                  \/ ~GroupWithMember
                  \/ PumpBoundReached))

C19_Witness ==
    /\ pump[1].pc = "done"
    /\ GroupWithMember
    /\ share_leader_push_thread = 2 /\ Running(2)

\* ------------------------------------- per-topic pump stop (SpecPushFair)
\* C20: a per-topic pump with `true` on its stop channel eventually exits,
\* and a pump that has exited reads, commits and publishes nothing more.
C20_PushPumpStops ==
    /\ \A t \in TopicIds : [](push_stop[t] => <>(push_pump[t].pc = "done"))
    /\ [][\A t \in TopicIds : push_pump[t].pc = "done" => push_pump'[t] = push_pump[t]]_vars

\* ------------------------------------------- removed members (SpecStop)
\* C21: a member removed from the group's entry is selected by a pump for
\* no record after the pump's next refresh of its member list, and for at
\* most one record before that refresh.
C21_RemovedMemberAtMostOnce ==
    \A p \in PumpIds : \A c \in Clients : stale[p][c].st \notin {"twice", "late"}

\* ------------------------------------------------ nolocal (SpecBuild)
\* C22: build_publish returns no PUBLISH if and only if the subscription
\* has nolocal set and the subscriber's client_id is the message's
\* originating client_id; otherwise it returns a PUBLISH with the message's
\* payload and the given topic name.
C22_NoPublishIffNolocalSelf ==
    (b_publish # Unbuilt /\ b_publish.by = "build_publish") =>
        /\ b_publish.publish.none <=>
               (b_subscribe.nolocal /\ b_subscribe.client_id = b_msg.client_id)
        /\ ~b_publish.publish.none =>
               /\ b_publish.publish.payload = b_msg.payload
               /\ b_publish.publish.topic = TopicName

\* A nolocal subscriber's own message gave no PUBLISH.
C22_Witness ==
    /\ b_publish # Unbuilt /\ b_publish.by = "build_publish"
    /\ b_publish.publish.none
    /\ b_subscribe.nolocal /\ b_subscribe.client_id = "c1" /\ b_msg.client_id = "c1"

\* ------------------------------------------- nolocal drop (SpecShare)
\* C23: a record whose PUBLISH the nolocal rule dropped for the selected
\* member is consumed: no PUBLISH of it is sent to any member afterwards,
\* neither in the current batch nor after a later read.
C23_NolocalDropConsumes ==
    \A p \in PumpIds :
        pump[p].tried # <<>> => pump[p].lo \notin nolocal_dropped

\* --------------------------------------------- retained messages (Spec)
\* C24: every member that joins a shared group, present when the group's
\* pump is started or joining while the pump runs, is sent the matching
\* retained messages before it receives a record of the pump's normal flow.
C24_RetainedBeforeNormalFlow ==
    \A c \in Clients : retain_sent[c] # "missed"

\* ------------------------------------------- authentication (SpecAuth)
\* C25: Plaintext::apply returns Ok(true) exactly when the login's username
\* is in the user table and the stored password equals the login's
\* password; an unknown username gives Ok(false), never an error; apply
\* never modifies the user table.
C25_PlaintextApply ==
    /\ [](auth_result.applied =>
            /\ auth_result.ok
            /\ auth_result.value =
                  (/\ user_info[login.username].present
                   /\ user_info[login.username].password = login.password))
    /\ [][user_info' = user_info]_vars

\* A login with an unknown username was answered Ok(false) while the table
\* holds other users.
C25_Witness ==
    /\ auth_result.applied /\ auth_result.ok /\ ~auth_result.value
    /\ login.username = "carol"
    /\ user_info["alice"].present

C28_RecordNumIsClamped ==
    calc.called =>
        calc.record_num = Max(100, Min(1000, calc.sub_len * 5))

\* ------------------------------------------- failed attempts (SpecShare)
\* C29: for one record the pump makes at most |members| failed delivery
\* attempts (loop_times counts the failed attempts for the current record).
C29_AtMostMembersFailedAttempts ==
    \A p \in PumpIds :
        pump[p].loop_times <= Len(share_leader_subscribe.sub_list)

\* -------------------------------------- head-of-line stall (SpecShareFair)
\* The pump is handling the record at offset o.
Handling(o) ==
    /\ pump[1].lo = o
    /\ pump[1].pc \in {"pick", "commit0", "ack1", "rec2", "rel2", "comp2"}

\* C30: in a group with at least one member the handling of every record
\* eventually ends, whatever the members answer, and every record of the
\* log is eventually dispatched (taken up by the pump, or already committed).
C30_NoHeadOfLineStall ==
    \A o \in 1 .. MaxLog :
        /\ Handling(o) ~> ~Handling(o)
        /\ (Len(log) >= o) ~> (Handling(o) \/ group_offset >= o)

\* ------------------------------------------ PUBCOMP wait (SpecShareFair)
\* The pump is in the PUBCOMP wait of a QoS 2 delivery (after the first PUBREL).
InCompWait == pump[1].pc = "comp2"

\* One step of the PUBCOMP wait: the step after a timeout sends PUBREL with
\* the delivery's pkid and offset and waits again, touching nothing of the
\* ledger; a step that changes the ledger is the release on a PUBCOMP with
\* the delivery's pkid.
C31_WaitStep ==
    LET pr == pump[1]
        c == Selected(pr).client_id
    IN InCompWait =>
         /\ (pr.rel_due /\ pump'[1] # pr) =>
               /\ pump'[1] = [pr EXCEPT !.rel_due = FALSE]
               /\ [client |-> c, pkid |-> pr.pkid, offset |-> pr.lo] \in pubrel_sent'
               /\ UNCHANGED <<pkid_info, ack_packet>>
         /\ (pkid_info' # pkid_info \/ ack_packet' # ack_packet) =>
               /\ ~pr.rel_due
               /\ pkid_info' = remove_pkid_info(c, pr.pkid)
               /\ ack_packet' = remove_ack_packet(c, pr.pkid)
               /\ comp_release' = [released |-> TRUE, ack_type |-> "PubComp",
                                   same_pkid |-> TRUE]

\* C31: in a QoS 2 delivery, after the first PUBREL, every timeout of the
\* ack wait leads to a re-send of PUBREL with the same pkid followed by
\* another wait, and the pkid and its ack waiter stay in the client's ledger
\* until a PUBCOMP with that pkid is received.
C31_PubrelResentUntilPubcomp ==
    /\ [](InCompWait =>
            /\ pump[1].pkid \in pkid_info[Selected(pump[1]).client_id]
            /\ pump[1].pkid \in ack_packet[Selected(pump[1]).client_id])
    /\ [](comp_release.released =>
            comp_release.ack_type = "PubComp" /\ comp_release.same_pkid)
    /\ [][C31_WaitStep]_vars
    /\ (InCompWait /\ pump[1].rel_due) ~> (InCompWait /\ ~pump[1].rel_due)

\* An earlier QoS 2 delivery ended on its PUBCOMP and the wait of a later one
\* has timed out: its PUBREL is about to be sent again.
C31_Witness ==
    /\ comp_release.released
    /\ InCompWait /\ pump[1].rel_due
    /\ Cardinality(pubrel_sent) >= 2

\* ------------------------------------------- mismatched acks (SpecShare)
\* The last attempt of pump p for its record was a QoS 1 delivery that failed
\* in the wait for its PUBACK.
FailedInPubackWait(p) ==
    LET pr == pump[p]
        n == Len(pr.tried)
    IN /\ pr.pc = "pick" /\ n > 0 /\ pr.tried[n].st = "fail"
       /\ build_publish(cluster_max_qos, Selected(pr), TopicName, log[pr.lo]).qos = 1

\* C32: while a delivery awaits PUBACK (QoS 1) or PUBREC (QoS 2), an ack
\* whose type or pkid does not match neither completes nor fails the
\* delivery: a wait for PUBACK fails by its timeout only, and a delivery is
\* completed (its offset committed) only by an ack of the expected type with
\* the assigned pkid.
C32_MismatchedAckKeepsWaiting ==
    /\ \A p \in PumpIds : FailedInPubackWait(p) => pump[p].puback_timeout
    /\ last_commit.qos \in {1, 2} =>
         /\ last_commit.ack.ack_type = (IF last_commit.qos = 1 THEN "PubAck" ELSE "PubRec")
         /\ last_commit.ack.pkid = last_commit.pkid

\* ------------------------------------ DISCONNECT per stale connection (SpecKeepShard)
\* The evaluations of sweep s that found connection c past its threshold.
StaleFound(s, c) ==
    {e \in scan_log : e.sweep = s /\ e.connection_id = c /\ e.disconnect}

\* The DISCONNECT packets for connection c in a request queue.
DisconnectsIn(queue, c) ==
    Len(SelectSeq(queue, LAMBDA r : r.connection_id = c /\ r.packet = "Disconnect"))

\* C33: for each stale connection found in a sweep one DISCONNECT is sent, on
\* the request queue of the connection's protocol and on no other (MQTT4:
\* request_queue_sx4, MQTT5: request_queue_sx5), and a send that failed for
\* one connection does not keep the shard task from evaluating, and
\* disconnecting, the other connections of the sweep.
C33_OneDisconnectOnOwnQueue ==
    /\ \A c \in KeepConns :
         LET sent == {e \in UNION {StaleFound(s, c) : s \in Sweeps} : e.send_ok}
             own == IF KeepProtocol(c) = "MQTT4" THEN request_queue4 ELSE request_queue5
             other == IF KeepProtocol(c) = "MQTT4" THEN request_queue5 ELSE request_queue4
         IN /\ \A s \in Sweeps : Cardinality(StaleFound(s, c)) <= 1
            /\ DisconnectsIn(own, c) = Cardinality(sent)
            /\ DisconnectsIn(other, c) = 0
    /\ \A s \in Sweeps, i \in Shards :
         shard_task[<<s, i>>].pc = "done" =>
            \A c \in KeepConns :
                (heartbeat_data[c].present /\ calc_shard(c) = i) =>
                   \E e \in scan_log : e.sweep = s /\ e.connection_id = c

\* In sweep 2 both connections of the shard were stale: the send for the
\* MQTT4 connection failed and the MQTT5 connection got its DISCONNECT on
\* request_queue_sx5.
C33_Witness ==
    /\ \E e \in StaleFound(2, 1) : ~e.send_ok
    /\ \E e \in StaleFound(2, 3) : e.send_ok
    /\ DisconnectsIn(request_queue5, 3) >= 1
    /\ calc_shard(1) = calc_shard(3)

\* ------------------------------- pump of a re-subscribed topic (SpecPushLife)
\* The topic's entry in topic_subscribe has a subscriber.
HasSubscriber(t) == topic_subscribe[t].present /\ topic_subscribe[t].sub_list # {}

\* C34: after a topic's pump was stopped because the topic had no
\* subscribers, the topic's entry is removed from topic_push_thread, and when
\* the topic has a subscriber again a pass of the push server spawns a new
\* pump for it (or the subscriber leaves first).
C34_StoppedPumpIsReplaced ==
    \A t \in TopicIds :
        /\ [](push_pump[t].pc = "done" => <>(t \notin topic_push_thread))
        /\ []((push_pump[t].pc = "done" /\ HasSubscriber(t)) =>
               <>(push_pump[t].pc \notin {"idle", "done"} \/ ~HasSubscriber(t)))

\* --------------------------------------- failed or empty read (SpecShare)
\* A step taken while the pump is at its read: the pump stays there, or its
\* pass returns without a batch (pc "read"), or it has a batch (pc "pick").
C35_EmptyReadStep ==
    LET pr == pump[1]
        sub_list == IF pr.pc = "start" THEN build_share_leader_sub_list ELSE pr.sl0
        cursor_point == IF pr.pc = "start" THEN 0 ELSE pr.cp0
    IN pr.pc \in {"start", "read"} =>
          /\ pump'[1].pc \in {pr.pc, "read", "pick"}
          /\ pump'[1].pc = "read" =>
                /\ UNCHANGED <<group_offset, commit_log, last_commit>>
                /\ UNCHANGED <<pkid_counter, pkid_info, ack_packet, pubrel_sent>>
                /\ UNCHANGED <<rr, dropped, nolocal_dropped>>
                /\ pump'[1].tried = <<>> /\ pump'[1].pkid = 0
                /\ pump'[1].cursor_point = cursor_point /\ pump'[1].cp0 = cursor_point
                /\ pump'[1].sub_list = sub_list /\ pump'[1].sl0 = sub_list

\* C35: a pass of the pump whose storage read failed or returned no records
\* commits no offset, emits no PUBLISH, allocates no pkid and returns the
\* cursor and the member snapshot it was called with; the pump's next step
\* is a read again.
C35_FailedReadChangesNothing == [][C35_EmptyReadStep]_vars

\* The pump is about to read again with the cursor past the first member of
\* a two-member snapshot, one record committed and another one in the log.
C35_Witness ==
    /\ pump[1].pc = "read" /\ pump[1].cp0 = 1 /\ Len(pump[1].sl0) = 2
    /\ group_offset = 1 /\ Len(log) = 2

\* ------------------------------------ PUBLISH not written (SpecShare)
\* A step of the pump at the selection of a member for a QoS 1 delivery in
\* which the PUBLISH could not be written (the member has no connection id,
\* or the payload is longer than the connection's max_packet_size): the
\* failed attempts of the record go up by one without a delivery record.
C36_SendFailureStep ==
    LET pr == pump[1]
        sl == RefreshedList(pr)
        current_point == IF pr.cursor_point < Len(pr.sub_list) THEN pr.cursor_point ELSE 0
        subscribe == sl[current_point + 1]
    IN (/\ pr.pc = "pick" /\ log[pr.lo].valid
        /\ Len(sl) > 0 /\ pr.loop_times <= Len(sl)
        /\ ~build_publish(cluster_max_qos, subscribe, TopicName, log[pr.lo]).none
        /\ build_publish(cluster_max_qos, subscribe, TopicName, log[pr.lo]).qos = 1
        /\ pump'[1].loop_times = pr.loop_times + 1) =>
          /\ pump'[1].tried = pr.tried
          /\ UNCHANGED <<group_offset, commit_log, last_commit, dropped, nolocal_dropped,
                         pubrel_sent>>
          /\ rr' = RRFail(subscribe.client_id)
          /\ pump'[1].pc = "pick" /\ pump'[1].lo = pr.lo
          /\ pump'[1].sub_list = sl /\ pump'[1].cursor_point = current_point + 1

\* C36: in a QoS 1 delivery of the shared-leader pump, when the PUBLISH is
\* longer than the connection's max_packet_size or the member has no
\* connection id, nothing is written to the member, the attempt counts as
\* one failure, of that member, and the same record is offered to the member
\* after it.
C36_UnwrittenPublishGoesOn == [][C36_SendFailureStep]_vars

\* The PUBLISH of the record could not be written to the first member and
\* was then written to the second, which is awaited.
C36_Witness ==
    /\ pump[1].pc = "ack1" /\ pump[1].loop_times = 1
    /\ Len(pump[1].sub_list) = 2 /\ pump[1].cursor_point = 2
    /\ Len(pump[1].tried) = 1
    /\ pump[1].tried[1].client = pump[1].sub_list[2].client_id

\* ------------------------------------ heartbeat after the snapshot (SpecKeep)
\* A step in which a shard task sends a DISCONNECT: the connection's entry in
\* the live heartbeat table is then at least 2 * keep_alive seconds old.
C37_DisconnectStep ==
    \A e \in scan_log' \ scan_log :
        (e.disconnect /\ e.send_ok) =>
            (e.now - heartbeat_data[e.connection_id].heartbeat) >= 2 * e.keep_live

\* C37: a connection whose heartbeat in the live heartbeat table was
\* refreshed less than 2 * keep_alive seconds before the check is never sent
\* a DISCONNECT by the sweeper, also when the refresh came after the sweeper
\* took its snapshot.
C37_RefreshedNeverDisconnected == [][C37_DisconnectStep]_vars

\* ------------------------------------------- topic isolation (SpecPush)
\* C38: every PUBLISH a per-topic push pump emits to a subscriber of a topic
\* carries the payload of a record of that topic's own log, whatever set of
\* topics has subscribers (the payload of a record names its log).
C38_TopicIsolation ==
    \A pkt \in response_queue :
        /\ pkt.packet.payload.topic = pkt.packet.topic
        /\ pkt.packet.payload.offset \in 1 .. Len(topic_log[pkt.packet.topic])

\* ------------------------------------- removal of an empty group (Spec)
\* A step that takes a member out of the group's entry is the unsubscribe of
\* that member: the entry stays, without the member.
C39_MemberRemovalStep ==
    \A c \in Clients :
        (/\ c \in SubClients(share_leader_subscribe.sub_list)
         /\ c \notin SubClients(share_leader_subscribe'.sub_list)) =>
            /\ share_leader_subscribe'.present
            /\ share_leader_subscribe'.sub_list =
                  RemoveClient(share_leader_subscribe.sub_list, c)

\* C39: a member added to a shared group in share_leader_subscribe is
\* removed from it only by the unsubscribe of that member; the lifecycle
\* tick's removal of an empty group never deletes an entry that holds a
\* member which subscribed after the tick took its snapshot.
C39_OnlyUnsubscribeRemovesMember == [][C39_MemberRemovalStep]_vars

====
